---- MODULE Spec2Model ----
(***************************************************************************)
(* The voice-companion front end: the App component's session state        *)
(* machine (src/frontend/src/App.jsx) and the emotion classifier with its  *)
(* rate limiter (src/frontend/src/services/emotionAnalysis.js).            *)
(* The earlier versions of both files that the repository keeps            *)
(* (src/unnamed/part_000 .. part_003) are modelled next to them.           *)
(*                                                                         *)
(* One action per handler.  A React handler runs to completion (or to its  *)
(* next await) and its setState calls are committed together, so each      *)
(* synchronous stretch of a handler is one atomic step.                    *)
(***************************************************************************)
EXTENDS Integers, Sequences, FiniteSets, TLC

\* ------------------------------------------------------------- bounds
MaxMessages == 6        \* entries the message log may hold
MaxUser     == 2        \* user utterances appended in one run
MaxSessions == 2        \* startConversation invocations in one run
MaxEndAwait == 1        \* endConversation invocations awaiting endSession()
MaxAuth     == 2        \* handleAuth requests in flight
MaxTestTimers == 1      \* pending timeouts of the test panel's speaking simulation
MaxCalls    == 3        \* classifier calls in one run of the rate limiter
MaxTicks    == 8        \* clock ticks in one run of the rate limiter
MaxRequests == 4        \* requests sent by handleConfirmClear

\* ------------------------------------------------------------- vocabulary
Emotions == {"neutral", "happy", "sad", "angry", "surprised", "confused"}
Modes    == {"listening", "thinking", "speaking"}
Statuses == {"disconnected", "connecting", "connected", "error"} \cup Modes
Sessions == 1..MaxSessions

\* Utterance texts the transport or the test panel can deliver: an ordinary
\* sentence and a whitespace-only one (truthy in JavaScript, empty after trim).
UserTexts == {"hello", " "}

VARIABLES
    \* useState of App
    isConnected, isSpeaking, status, messages, volume, emotion,
    isLoggedIn, authError, testIsSpeaking,
    \* useRef of App
    conversationRef,    \* 0 is null, s is the handle of session s
    audioContextRef,    \* TRUE once the AudioContext and analyser exist
    \* environment of App
    storage,            \* localStorage holds the key alfred_username
    configured,         \* VITE_ELEVENLABS_API_KEY and VITE_AGENT_ID are set
    \* positions of the asynchronous handlers
    flow,               \* per startConversation invocation: where it is suspended
    closure,            \* per startConversation invocation: the isConnected it captured
    transport,          \* per session: state of the SDK's connection
    endAwait,           \* endConversation invocations suspended in endSession()
    authAwait,          \* handleAuth invocations suspended in fetch()
    classifying,        \* the addMessage('user') calls suspended in the classifier
    testTimers,         \* pending 3 s timeouts of toggleTestSpeaking
    \* observation
    detected,           \* the emotions logged as 'AI detected emotion', in order
    applied,            \* which addMessage('user') call set the emotion, in order
    lastOp,             \* the handler step that ran last
    \* emotionAnalysis.js
    lastRequestTime,    \* the module variable of the rate limiter
    clock,              \* Date.now(), in ms
    calls,              \* per analyzeEmotionWithGemini call: where it is and what it read
    \* the classifier module the build bundles
    impl,               \* which version of the emotion analysis module it is
    apiKey,             \* the provider key of the build: missing, placeholder or set
    job,                \* one classify call followed through its provider attempts
    \* the 'clear memory' dialog
    showClearDialog,    \* the dialog is rendered
    clearUsername,      \* its username field
    clearPassword,      \* its password field
    clearError,         \* clearError is a non-empty string
    isClearing,         \* the Confirm and Cancel buttons are disabled
    authToken,          \* VITE_AUTH_TOKEN is set
    clearCall,          \* the handleConfirmClear invocation that is suspended
    requests            \* the requests handleConfirmClear has sent, in order

appVars  == <<isConnected, isSpeaking, status, messages, volume, emotion,
              isLoggedIn, authError, testIsSpeaking, conversationRef,
              audioContextRef, storage, configured>>
procVars == <<flow, closure, transport, endAwait, authAwait, classifying,
              testTimers, detected, applied, lastOp>>
limiterVars == <<lastRequestTime, clock, calls>>
classifierVars == <<impl, apiKey, job>>
clearVars == <<showClearDialog, clearUsername, clearPassword, clearError,
               isClearing, authToken, clearCall, requests>>
vars     == <<appVars, procVars, limiterVars, classifierVars, clearVars>>

\* ------------------------------------------------------------- message log
Utterance(role, content) == [role |-> role, content |-> content]

\* Mutant of Append1: the new entry is put in front.
Append1_front(log, role, content) == <<Utterance(role, content)>> \o log

\* setMessages(prev => [...prev, {role, content, timestamp}])
Append1(log, role, content) == Append(log, Utterance(role, content))

UserCount(log) == Cardinality({i \in 1..Len(log) : log[i].role = "user"})

LogHasRoom == Len(messages) < MaxMessages
\* ------------------------------------------------------------- classifier
\* A provider reply, as far as analyzeEmotionWithHuggingFace looks at it.
\*   neterr   fetch rejects
\*   http     response.ok is false
\*   loading  a JSON object whose error text contains 'loading'
\*   nested   [[{label, score}, ...]]
\*   flat     [{label, score}, ...]
\*   badjson  response.json() rejects
\*   shape    JSON of any other shape (an object without error, null, a number)
Pair(label, score) == [label |-> label, score |-> score]
Reply(kind, pairs) == [kind |-> kind, pairs |-> pairs]

\* Scores are hundredths: 90 is 0.9.
HFReplies ==
    { Reply("neterr", <<>>), Reply("http", <<>>), Reply("loading", <<>>),
      Reply("badjson", <<>>), Reply("shape", <<>>),
      Reply("nested", <<Pair("disgust", 85), Pair("joy", 15)>>),
      Reply("nested", <<Pair("Disgust", 50), Pair("fear", 50)>>),
      Reply("nested", <<Pair("surprise", 50), Pair("joy", 50)>>),
      Reply("nested", <<>>),
      Reply("nested", <<Pair("joy", 90), Pair("anger", 10)>>),
      Reply("nested", <<Pair("neutral", 80), Pair("sadness", 20)>>),
      Reply("nested", <<Pair("fear", 30), Pair("SADNESS", 70)>>),
      Reply("nested", <<Pair("Anger", 60), Pair("surprise", 40)>>),
      Reply("nested", <<Pair("surprise", 55), Pair("love", 45)>>),
      Reply("nested", <<Pair("love", 99)>>),
      Reply("flat",   <<Pair("joy", 90), Pair("anger", 10)>>) }

\* String.prototype.toLowerCase on the labels that occur in HFReplies.
toLowerCase(l) ==
    CASE l = "SADNESS" -> "sadness"
      [] l = "Anger"   -> "anger"
      [] l = "Disgust" -> "disgust"
      [] OTHER         -> l

\* emotions.reduce((max, curr) => curr.score > max.score ? curr : max),
\* on a non-empty array: the accumulator starts as the first element.
RECURSIVE reduceMax(_, _, _)
reduceMax(pairs, i, max) ==
    IF i > Len(pairs) THEN max
    ELSE reduceMax(pairs, i + 1, IF pairs[i].score > max.score THEN pairs[i] ELSE max)

\* Mutant of topEmotion: the first pair, whatever its score.
topEmotion_first(pairs) == pairs[1]

\* Mutant of topEmotion: of the pairs with the highest score, the last one.
topEmotion_lastOfTies(pairs) ==
    LET top == {k \in 1..Len(pairs) :
                   \A m \in 1..Len(pairs) : pairs[m].score <= pairs[k].score}
    IN  pairs[CHOOSE k \in top : \A m \in top : m <= k]

topEmotion(pairs) == reduceMax(pairs, 2, pairs[1])

\* const emotionMapping = {...};  emotionMapping[label] || 'neutral'
emotionMapping(label) ==
    CASE label = "joy"       -> "happy"
      [] label = "happiness" -> "happy"
      [] label = "sadness"   -> "sad"
      [] label = "anger"     -> "angry"
      [] label = "fear"      -> "sad"
      [] label = "surprise"  -> "surprised"
      [] label = "neutral"   -> "neutral"
      [] label = "disgust"   -> "angry"
      [] OTHER               -> "neutral"

\* A classification result; thrown = TRUE stands for a rejected promise.
\* scores is the set of <<emotion, score>> entries of the scores object; error
\* tells whether the result has an error field.
Result(thrown, e, confidence, scores, error) ==
    [thrown |-> thrown, emotion |-> e, confidence |-> confidence,
     scores |-> scores, error |-> error]
Undefined == -1

analyzeEmotionWithHuggingFace(text, reply) ==
    IF reply.kind \in {"neterr", "http", "loading", "badjson", "shape", "flat"}
        THEN Result(TRUE, "", Undefined, {}, TRUE)
    ELSE IF Len(reply.pairs) = 0
        THEN Result(TRUE, "", Undefined, {}, TRUE)   \* reduce of an empty array throws
    ELSE LET top   == topEmotion(reply.pairs)
             label == toLowerCase(top.label)
             mapped == emotionMapping(label)
         IN  Result(FALSE, mapped, top.score, {<<mapped, top.score>>}, FALSE)

\* Mutant of isBlank: the text is not trimmed.
isBlank_noTrim(text) == text = ""

\* !text || text.trim().length === 0
isBlank(text) == text \in {"", " "}

\* Mutant of analyzeEmotionWithGemini: no catch around the provider attempt.
analyzeEmotionWithGemini_rethrows(text, reply) ==
    IF isBlank(text) THEN Result(FALSE, "neutral", Undefined, {}, FALSE)
    ELSE analyzeEmotionWithHuggingFace(text, reply)

\* Lines 94-131, given the reply the provider will make.
analyzeEmotionWithGemini(text, reply) ==
    IF isBlank(text) THEN Result(FALSE, "neutral", Undefined, {}, FALSE)
    ELSE LET r == analyzeEmotionWithHuggingFace(text, reply)
         IN  IF r.thrown THEN Result(FALSE, "neutral", Undefined, {}, TRUE) ELSE r

\* Mutant of shownEmotion: a neutral result is shown as it is.
shownEmotion_noOverride(result) ==
    IF result.thrown THEN "happy"
    ELSE IF result.emotion # "" THEN result.emotion
    ELSE "happy"

\* Mutant of shownEmotion: every result shows 'happy'.
shownEmotion_alwaysHappy(result) == "happy"

\* addMessage, lines 104-122: the emotion shown for a classification result.
shownEmotion(result) ==
    IF result.thrown THEN "happy"
    ELSE IF result.emotion = "neutral" THEN "happy"
    ELSE IF result.emotion # "" THEN result.emotion
    ELSE "happy"
\* ------------------------------------------------------------- rate limiter
MIN_REQUEST_INTERVAL == 3000
Tick      == 1000       \* the clock advances in steps of one second
StartTime == 5000       \* Date.now() when the module is loaded
Calls     == 1..MaxCalls

\* A call that has not been made yet.  pc is idle, waiting (in the setTimeout),
\* passed (lastRequestTime written, provider attempt running) or done.
NoCall == [pc |-> "idle", text |-> "", issuedAt |-> 0, wakeAt |-> 0,
           passedAt |-> 0, afterPrev |-> FALSE]

\* Mutant of waitTime: waits the time already elapsed, not the time remaining.
waitTime_elapsed(now, last) ==
    IF now - last < MIN_REQUEST_INTERVAL
        THEN now - last
        ELSE 0

\* Lines 100-105: the delay the limiter imposes on a call made at `now`.
waitTime(now, last) ==
    IF now - last < MIN_REQUEST_INTERVAL
        THEN MIN_REQUEST_INTERVAL - (now - last)
        ELSE 0

\* ------------------------------------------------------------- classifier versions
\* The repository holds five versions of the emotion analysis function:
\*   hf    src/frontend/src/services/emotionAnalysis.js  (Hugging Face, one attempt)
\*   rest  src/unnamed/part_002, lines 1-104    (Gemini REST, two model names)
\*   sdk0  src/unnamed/part_000                 (Gemini SDK, four model names)
\*   sdk1  src/unnamed/part_001                 (Gemini SDK, six model names)
\*   ai    src/unnamed/part_002, lines 157-268  (analyzeEmotionWithAI, no limiter)
Impls == {"hf", "rest", "sdk0", "sdk1", "ai"}
Cascades == {"rest", "sdk0", "sdk1"}

\* The key the version tests: absent, the placeholder of .env.example, or a key.
Keys == {"missing", "placeholder", "set"}
\* Mutant of keyConfigured: only an absent key is refused.
keyConfigured_placeholderPasses(key) == key # "missing"

\* !KEY || KEY === 'your_..._key_here', negated.
keyConfigured(key) == key = "set"

modelNames(version) ==
    CASE version = "rest" -> <<"gemini-2.5-flash", "gemini-2.0-flash">>
      [] version = "sdk0" -> <<"gemini-1.5-flash-latest", "gemini-1.5-flash-001",
                               "gemini-1.5-pro-latest", "gemini-1.5-pro-001">>
      [] version = "sdk1" -> <<"gemini-pro", "gemini-1.0-pro", "gemini-1.5-flash",
                               "gemini-1.5-pro", "gemini-flash", "text-bison-001">>
      [] OTHER            -> <<>>

\* A generative reply's text is a sequence of tokens: "a" is any run of text
\* without braces, "{" and "}" are braces, and a J_ token is the member list
\* "emotion":..,"confidence":..,"reasoning":.. of a JSON object.
Bodies == {"J_sad", "J_happy", "J_excited"}
bodyEmotion(b) ==
    CASE b = "J_sad" -> "sad" [] b = "J_happy" -> "happy" [] OTHER -> "excited"
bodyConfidence(b) ==
    CASE b = "J_sad" -> 80 [] b = "J_happy" -> 90 [] OTHER -> 70

GeminiContents ==
    { <<"{", "J_happy", "}">>,
      <<"a", "{", "J_sad", "}", "a">>,
      <<"a", "{", "J_sad", "}", "a", "{", "a", "}">>,
      <<"{", "J_excited", "}">>,
      <<"{", "}">>,
      <<"}", "a", "{">>,
      <<"a">> }

\* A reply of the generative provider:
\*   neterr  the request rejects        http   a non-2xx response
\*   shape   2xx, but no candidates[0].content.parts[0].text
\*   text    2xx with the reply text `content`
GeminiReply(kind, content) == [kind |-> kind, content |-> content]
GeminiReplies ==
    { GeminiReply("neterr", <<>>), GeminiReply("http", <<>>),
      GeminiReply("shape", <<>>) }
    \cup { GeminiReply("text", c) : c \in GeminiContents }

Min(S) == CHOOSE x \in S : \A y \in S : x <= y
Max(S) == CHOOSE x \in S : \A y \in S : x >= y

\* content.match(/\{[\s\S]*\}/): the regular expression is greedy, so the match
\* runs from the first "{" that has a "}" after it to the LAST "}" of the text.
\* <<>> stands for null (no match).
jsonMatch(content) ==
    LET closing == {i \in 1..Len(content) : content[i] = "}"}
    IN  IF closing = {} THEN <<>>
        ELSE LET last    == Max(closing)
                 opening == {i \in 1..last : content[i] = "{"}
             IN  IF opening = {} THEN <<>>
                 ELSE SubSeq(content, Min(opening), last)

\* JSON.parse on a matched substring: it returns an object for {} and for
\* {members}, and throws a SyntaxError for everything else.
parses(m) ==
    \/ m = <<"{", "}">>
    \/ Len(m) = 3 /\ m[1] = "{" /\ m[2] \in Bodies /\ m[3] = "}"

\* The value one attempt of the cascade produces: ok = FALSE is "try the next
\* model name".
Attempt(ok, result) == [ok |-> ok, result |-> result]
NoResult == Result(FALSE, "", Undefined, {}, FALSE)

\* The object built from the parsed reply; a member the reply lacks is
\* undefined ("" for the emotion).
parsedResult(m) ==
    IF Len(m) = 3
        THEN Result(FALSE, bodyEmotion(m[2]), bodyConfidence(m[2]),
                    {<<bodyEmotion(m[2]), bodyConfidence(m[2])>>}, FALSE)
        ELSE Result(FALSE, "", Undefined, {<<"", Undefined>>}, FALSE)

\* part_002, lines 50-98: one pass of the loop body of the REST cascade.
tryModel_rest(reply) ==
    IF reply.kind = "neterr" THEN Attempt(FALSE, NoResult)        \* catch, line 96
    ELSE IF reply.kind = "http" THEN Attempt(FALSE, NoResult)     \* else, line 93
    ELSE IF reply.kind = "shape" THEN Attempt(FALSE, NoResult)    \* TypeError, caught
    ELSE LET m == jsonMatch(reply.content)
         IN  IF m = <<>> THEN Attempt(FALSE, NoResult)            \* continue, line 79
             ELSE IF ~parses(m) THEN Attempt(FALSE, NoResult)     \* SyntaxError, caught
             ELSE Attempt(TRUE, parsedResult(m))

\* part_000, lines 56-86 (part_001, lines 62-95): one pass of the SDK cascade;
\* generateContent rejects for a network error and for a non-2xx response, and
\* response.text() throws for a reply without text.
tryModel_sdk(reply) ==
    IF reply.kind \in {"neterr", "http", "shape"} THEN Attempt(FALSE, NoResult)
    ELSE LET m == jsonMatch(reply.content)
         IN  IF m = <<>> THEN Attempt(FALSE, NoResult)            \* throw, line 69
             ELSE IF ~parses(m) THEN Attempt(FALSE, NoResult)
             ELSE Attempt(TRUE, parsedResult(m))

tryModel(version, reply) ==
    IF version = "rest" THEN tryModel_rest(reply) ELSE tryModel_sdk(reply)

\* Mutant of allModelsFailed: the fallback carries no error field.
allModelsFailed_silent == Result(FALSE, "neutral", Undefined, {}, FALSE)

\* What the cascade returns once every model name has failed (part_002 line 103,
\* part_000 line 90, part_001 lines 99-104).
allModelsFailed == Result(FALSE, "neutral", Undefined, {}, TRUE)

\* part_002, lines 226-235.
emotionMap(label) ==
    CASE label = "joy"       -> "happy"
      [] label = "happiness" -> "happy"
      [] label = "sadness"   -> "sad"
      [] label = "anger"     -> "sad"
      [] label = "fear"      -> "sad"
      [] label = "surprise"  -> "surprised"
      [] label = "disgust"   -> "sad"
      [] label = "neutral"   -> "neutral"
      [] OTHER               -> "neutral"

\* part_002, lines 238-252: the forEach that keeps the first pair whose score
\* exceeds every score before it; acc is [highestScore, detectedEmotion].
RECURSIVE forEachTop(_, _, _)
forEachTop(pairs, i, acc) ==
    IF i > Len(pairs) THEN acc
    ELSE forEachTop(pairs, i + 1,
            IF pairs[i].score > acc.highestScore
                THEN [highestScore |-> pairs[i].score,
                      detectedEmotion |-> emotionMap(toLowerCase(pairs[i].label))]
                ELSE acc)

\* part_002, lines 166-267: analyzeEmotionWithAI for a non-blank text, given the
\* provider's reply.
analyzeEmotionWithAI(text, reply) ==
    IF isBlank(text) THEN Result(FALSE, "neutral", Undefined, {}, FALSE)
    ELSE IF reply.kind \in {"neterr", "http", "badjson"}
        THEN Result(FALSE, "neutral", Undefined, {}, TRUE)        \* catch, line 263
    ELSE IF reply.kind \in {"loading", "shape"} \/ Len(reply.pairs) = 0
        THEN Result(FALSE, "neutral", Undefined, {}, TRUE)        \* line 222
    ELSE LET top == forEachTop(reply.pairs, 1,
                       [highestScore |-> 0, detectedEmotion |-> "neutral"])
         IN  Result(FALSE, top.detectedEmotion, top.highestScore,
                    {<<toLowerCase(reply.pairs[i].label), reply.pairs[i].score>> :
                        i \in 1..Len(reply.pairs)},
                    FALSE)

\* One classify call followed through its provider attempts.  pc is idle,
\* waiting (in the limiter's setTimeout), fetching (a request is out) or done;
\* attempt is the index of the model name being tried, fetches the number of
\* network requests the call has issued, reply the reply that settled it.
\* okAt is the index of the attempt that succeeded (0: none did).  acquired
\* counts the call's passages through the limiter and acquiredAt is the time of
\* the last one; startedAt and prevStartedAt are the times at which the current
\* and the previous request were sent.
NoReply == [kind |-> "none"]
NoJob == [pc |-> "idle", text |-> "", wakeAt |-> 0, attempt |-> 0, fetches |-> 0,
          okAt |-> 0, reply |-> NoReply, result |-> NoResult,
          acquired |-> 0, acquiredAt |-> 0, startedAt |-> 0, prevStartedAt |-> 0]

\* A handleConfirmClear invocation: where it is suspended (idle: none is) and
\* the field values of the render it was made in.
NoClearCall == [pc |-> "idle", username |-> "", password |-> ""]

\* ------------------------------------------------------------- initial state
\* useState/useRef defaults, then the mount effect that logs a stored user in.
InitApp ==
    /\ storage \in BOOLEAN
    /\ configured \in BOOLEAN
    /\ isConnected = FALSE
    /\ isSpeaking = FALSE
    /\ status = "disconnected"
    /\ volume = 0
    /\ emotion = "neutral"
    /\ isLoggedIn = storage
    /\ messages = IF storage THEN <<Utterance("system", "AutoLoggedIn")>> ELSE <<>>
    /\ authError = FALSE
    /\ testIsSpeaking = FALSE
    /\ conversationRef = 0
    /\ audioContextRef = FALSE
    /\ flow = [s \in Sessions |-> "idle"]
    /\ closure = [s \in Sessions |-> FALSE]
    /\ transport = [s \in Sessions |-> "none"]
    /\ endAwait = 0
    /\ authAwait = 0
    /\ classifying = <<>>
    /\ testTimers = 0
    /\ detected = <<>>
    /\ applied = <<>>
    /\ lastOp = "mount"
    /\ lastRequestTime = 0
    /\ clock = StartTime
    /\ calls = [c \in Calls |-> NoCall]
    /\ showClearDialog = FALSE
    /\ clearUsername = ""
    /\ clearPassword = ""
    /\ clearError = FALSE
    /\ isClearing = FALSE
    /\ clearCall = NoClearCall
    /\ requests = <<>>

\* The build that src/frontend holds: services/emotionAnalysis.js with its
\* provider key set.
Init ==
    /\ InitApp
    /\ impl = "hf"
    /\ apiKey = "set"
    /\ job = NoJob
    /\ authToken = TRUE

\* ------------------------------------------------------------- addMessage
\* addMessage(role, content) for role system or assistant: the append only.
addMessage(role, content) ==
    /\ LogHasRoom
    /\ messages' = Append1(messages, role, content)

\* The part of addMessage('user', text) that runs after the classifier resolved.
applyResult(result) ==
    /\ emotion' = shownEmotion(result)
    /\ detected' = Append(detected, result.emotion)

\* One addMessage('user', text) invocation: its text, its number among the user
\* utterances, and whether no other invocation was suspended when it was made.
Call(text) ==
    [text |-> text, n |-> UserCount(messages) + 1, alone |-> classifying = <<>>]

\* Mutant of addUserMessage: a blank text is appended without calling the
\* classifier.
addUserMessage_skipBlank(text, before) ==
    /\ LogHasRoom
    /\ UserCount(messages) < MaxUser
    /\ messages' = Append1(messages, "user", text)
    /\ IF isBlank(text)
         THEN /\ emotion' = before
              /\ UNCHANGED <<classifying, detected, applied>>
         ELSE /\ classifying' = Append(classifying, Call(text))
              /\ emotion' = before
              /\ UNCHANGED <<detected, applied>>

\* addMessage('user', text): the append, then the classifier call; `before` is
\* the emotion the caller left in place (a test button sets one first).  A blank text
\* resolves without suspending on the network, so its result is applied before
\* any other handler runs; any other text leaves the call suspended.
addUserMessage(text, before) ==
    /\ LogHasRoom
    /\ UserCount(messages) < MaxUser
    /\ messages' = Append1(messages, "user", text)
    /\ IF isBlank(text)
         THEN /\ applyResult(analyzeEmotionWithGemini(text, Reply("neterr", <<>>)))
              /\ applied' = Append(applied, Call(text))
              /\ UNCHANGED classifying
         ELSE /\ classifying' = Append(classifying, Call(text))
              /\ emotion' = before
              /\ UNCHANGED <<detected, applied>>

\* Mutant of RemoveAt: the resolved call stays suspended.
RemoveAt_keeps(seq, i) == seq

RemoveAt(seq, i) == [j \in 1..(Len(seq) - 1) |-> IF j < i THEN seq[j] ELSE seq[j + 1]]

\* A suspended classifier call resolves, in any order, with whatever the provider
\* replied; the rest of addMessage sets the emotion.
classified(i, reply) ==
    /\ i \in 1..Len(classifying)
    /\ applyResult(analyzeEmotionWithGemini(classifying[i].text, reply))
    /\ applied' = Append(applied, classifying[i])
    /\ classifying' = RemoveAt(classifying, i)
    /\ lastOp' = "classified"
    /\ UNCHANGED <<limiterVars, classifierVars, clearVars>>
    /\ UNCHANGED <<isConnected, isSpeaking, status, messages, volume, isLoggedIn,
                   authError, testIsSpeaking, conversationRef, audioContextRef,
                   storage, configured, flow, closure, transport, endAwait,
                   authAwait, testTimers>>

\* ------------------------------------------------------------- authentication
handleAuth(filled) ==
    /\ ~isLoggedIn                      \* the form is rendered
    /\ IF filled
         THEN /\ authAwait < MaxAuth
              /\ authAwait' = authAwait + 1
              /\ authError' = FALSE
         ELSE /\ authError' = TRUE
              /\ UNCHANGED authAwait
    /\ lastOp' = "handleAuth"
    /\ UNCHANGED <<limiterVars, classifierVars, clearVars>>
    /\ UNCHANGED <<isConnected, isSpeaking, status, messages, volume, emotion,
                   isLoggedIn, testIsSpeaking, conversationRef, audioContextRef,
                   storage, configured, flow, closure, transport, endAwait,
                   classifying, testTimers, detected, applied>>

handleAuthResponse(ok) ==
    /\ authAwait > 0
    /\ authAwait' = authAwait - 1
    /\ IF ok
         THEN /\ storage' = TRUE
              /\ isLoggedIn' = TRUE
              /\ authError' = FALSE
              /\ addMessage("system", "LoggedIn")
         ELSE /\ isLoggedIn' = FALSE
              /\ authError' = TRUE
              /\ UNCHANGED <<storage, messages>>
    /\ lastOp' = "handleAuthResponse"
    /\ UNCHANGED <<limiterVars, classifierVars, clearVars>>
    /\ UNCHANGED <<isConnected, isSpeaking, status, volume, emotion,
                   testIsSpeaking, conversationRef, audioContextRef,
                   configured, flow, closure, transport, endAwait,
                   classifying, testTimers, detected, applied>>

handleLogout ==
    /\ isLoggedIn                       \* the Logout button is rendered
    /\ storage' = FALSE
    /\ isLoggedIn' = FALSE
    /\ authError' = FALSE
    /\ isSpeaking' = FALSE
    /\ addMessage("system", "LoggedOut")
    /\ lastOp' = "handleLogout"
    /\ UNCHANGED <<limiterVars, classifierVars, clearVars>>
    /\ UNCHANGED <<isConnected, status, volume, emotion, testIsSpeaking,
                   conversationRef, audioContextRef, configured, flow, closure,
                   transport, endAwait, authAwait, classifying, testTimers, detected, applied>>
\* ------------------------------------------------------------- startConversation
\* The Start button is rendered while isConnected is false and is disabled while
\* status is 'connecting' or nobody is logged in (lines 770-775).
StartEnabled == ~isConnected /\ status # "connecting" /\ isLoggedIn

\* The invocation takes the first unused session slot.
FreshSession(s) == flow[s] = "idle" /\ \A t \in Sessions : t < s => flow[t] # "idle"

\* Mutant of startFailed: the catch block leaves the emotion as it was.
startFailed_keepsEmotion ==
    /\ status' = "error"
    /\ isConnected' = FALSE
    /\ emotion' = emotion
    /\ isSpeaking' = FALSE
    /\ addMessage("system", "StartFailed")

\* The catch block of startConversation (lines 427-449).
startFailed ==
    /\ status' = "error"
    /\ isConnected' = FALSE
    /\ emotion' = "sad"
    /\ isSpeaking' = FALSE
    /\ addMessage("system", "StartFailed")

\* startConversation without the login check of lines 273-284.
startConversationBody_noLoginCheck(s) ==
    /\ FreshSession(s)
    /\ IF ~configured
         THEN /\ startFailed
              /\ flow' = [flow EXCEPT ![s] = "failed"]
              /\ UNCHANGED <<audioContextRef, closure>>
         ELSE /\ status' = "connecting"
              /\ isSpeaking' = FALSE
              /\ addMessage("system", "Connecting")
              /\ audioContextRef' = TRUE
              /\ flow' = [flow EXCEPT ![s] = "mic"]
              /\ closure' = [closure EXCEPT ![s] = isConnected]
              /\ UNCHANGED <<isConnected, emotion>>
    /\ lastOp' = "startConversation"
    /\ UNCHANGED <<limiterVars, classifierVars, clearVars>>
    /\ UNCHANGED <<volume, isLoggedIn, authError, testIsSpeaking, conversationRef,
                   storage, configured, transport, endAwait, authAwait,
                   classifying, testTimers, detected, applied>>

\* Lines 271-321: the function from its first statement up to the await of
\* getUserMedia, in whatever state it is invoked.
startConversationBody(s) ==
    /\ FreshSession(s)
    /\ IF ~isLoggedIn
         THEN /\ addMessage("system", "LoginRequired")
              /\ UNCHANGED <<status, isConnected, emotion, isSpeaking,
                             audioContextRef, flow, closure>>
         ELSE IF ~configured
         THEN /\ startFailed
              /\ flow' = [flow EXCEPT ![s] = "failed"]
              /\ UNCHANGED <<audioContextRef, closure>>
         ELSE /\ status' = "connecting"
              /\ isSpeaking' = FALSE
              /\ addMessage("system", "Connecting")
              /\ audioContextRef' = TRUE
              /\ flow' = [flow EXCEPT ![s] = "mic"]
              /\ closure' = [closure EXCEPT ![s] = isConnected]
              /\ UNCHANGED <<isConnected, emotion>>
    /\ lastOp' = "startConversation"
    /\ UNCHANGED <<limiterVars, classifierVars, clearVars>>
    /\ UNCHANGED <<volume, isLoggedIn, authError, testIsSpeaking, conversationRef,
                   storage, configured, transport, endAwait, authAwait,
                   classifying, testTimers, detected, applied>>

\* A click on the Start button.
startConversation(s) ==
    /\ StartEnabled
    /\ startConversationBody(s)

\* The function invoked while nobody is logged in.  The Start button is
\* disabled then (line 771), so this is a call that does not come from the
\* button; it exercises the guard of lines 273-284.
startConversationLoggedOut(s) ==
    /\ ~isLoggedIn
    /\ ~isConnected
    /\ status # "connecting"
    /\ startConversationBody(s)

\* getUserMedia resolves and Conversation.startSession is called (lines 315-326).
micGranted(s) ==
    /\ flow[s] = "mic"
    /\ flow' = [flow EXCEPT ![s] = "session"]
    /\ transport' = [transport EXCEPT ![s] = "starting"]
    /\ lastOp' = "micGranted"
    /\ UNCHANGED <<limiterVars, classifierVars, clearVars>>
    /\ UNCHANGED <<appVars, closure, endAwait, authAwait, classifying,
                   testTimers, detected, applied>>

\* getUserMedia rejects (NotAllowedError): the catch block runs.
micDenied(s) ==
    /\ flow[s] = "mic"
    /\ flow' = [flow EXCEPT ![s] = "failed"]
    /\ startFailed
    /\ lastOp' = "micDenied"
    /\ UNCHANGED <<limiterVars, classifierVars, clearVars>>
    /\ UNCHANGED <<volume, isLoggedIn, authError, testIsSpeaking, conversationRef,
                   audioContextRef, storage, configured, closure, transport,
                   endAwait, authAwait, classifying, testTimers, detected, applied>>

\* Levels the analyser can report, as setVolume(Math.min(100, average/255*200)).
VolumeSamples == {0, 40, 100}

\* updateVolume (lines 415-423) as called once at line 424: it reads the
\* isConnected of the render that created this startConversation.
updateVolume(s, v) ==
    IF audioContextRef /\ closure[s]
        THEN v \in VolumeSamples /\ volume' = v
        ELSE v = volume /\ volume' = volume

\* startSession resolves: the handle is stored and monitoring starts (408-424).
sessionCreated(s, v) ==
    /\ flow[s] = "session"
    /\ transport[s] \in {"open", "closed"}
    /\ flow' = [flow EXCEPT ![s] = "done"]
    /\ conversationRef' = s
    /\ updateVolume(s, v)
    /\ lastOp' = "sessionCreated"
    /\ UNCHANGED <<limiterVars, classifierVars, clearVars>>
    /\ UNCHANGED <<isConnected, isSpeaking, status, messages, emotion, isLoggedIn,
                   authError, testIsSpeaking, audioContextRef, storage, configured,
                   closure, transport, endAwait, authAwait, classifying,
                   testTimers, detected, applied>>

\* startSession rejects before the connection opened: the catch block runs.
sessionFailed(s) ==
    /\ flow[s] = "session"
    /\ transport[s] = "starting"
    /\ flow' = [flow EXCEPT ![s] = "failed"]
    /\ transport' = [transport EXCEPT ![s] = "failed"]
    /\ startFailed
    /\ lastOp' = "sessionFailed"
    /\ UNCHANGED <<limiterVars, classifierVars, clearVars>>
    /\ UNCHANGED <<volume, isLoggedIn, authError, testIsSpeaking, conversationRef,
                   audioContextRef, storage, configured, closure,
                   endAwait, authAwait, classifying, testTimers, detected, applied>>

\* ------------------------------------------------------------- transport callbacks
\* Mutant of onConnect: the emotion is not reset.
onConnect_keepsEmotion(s) ==
    /\ transport[s] = "starting"
    /\ transport' = [transport EXCEPT ![s] = "open"]
    /\ isConnected' = TRUE
    /\ status' = "connected"
    /\ isSpeaking' = FALSE
    /\ addMessage("system", "Connected")
    /\ lastOp' = "onConnect"
    /\ UNCHANGED <<limiterVars, classifierVars, clearVars>>
    /\ UNCHANGED <<volume, emotion, isLoggedIn, authError, testIsSpeaking,
                   conversationRef, audioContextRef, storage, configured, flow,
                   closure, endAwait, authAwait, classifying, testTimers, detected, applied>>

\* The SDK calls back on behalf of session s.  A connection opens once and
\* closes once; mode changes still queued when it closes are delivered late.
onConnect(s) ==
    /\ transport[s] = "starting"
    /\ transport' = [transport EXCEPT ![s] = "open"]
    /\ isConnected' = TRUE
    /\ status' = "connected"
    /\ emotion' = "neutral"
    /\ isSpeaking' = FALSE
    /\ addMessage("system", "Connected")
    /\ lastOp' = "onConnect"
    /\ UNCHANGED <<limiterVars, classifierVars, clearVars>>
    /\ UNCHANGED <<volume, isLoggedIn, authError, testIsSpeaking, conversationRef,
                   audioContextRef, storage, configured, flow, closure,
                   endAwait, authAwait, classifying, testTimers, detected, applied>>

\* Mutant of onDisconnect: the speaking flag is not cleared.
onDisconnect_keepsSpeaking(s, quota) ==
    /\ transport[s] = "open"
    /\ transport' = [transport EXCEPT ![s] = "closed"]
    /\ isConnected' = FALSE
    /\ status' = "disconnected"
    /\ volume' = 0
    /\ emotion' = "sad"
    /\ addMessage("system", IF quota THEN "QuotaExceeded" ELSE "Disconnected")
    /\ lastOp' = "onDisconnect"
    /\ UNCHANGED <<limiterVars, classifierVars, clearVars>>
    /\ UNCHANGED <<isSpeaking, isLoggedIn, authError, testIsSpeaking,
                   conversationRef, audioContextRef, storage, configured, flow,
                   closure, endAwait, authAwait, classifying, testTimers, detected, applied>>

\* Mutant of onDisconnect: the emotion is not forced to sad.
onDisconnect_keepsEmotion(s, quota) ==
    /\ transport[s] = "open"
    /\ transport' = [transport EXCEPT ![s] = "closed"]
    /\ isConnected' = FALSE
    /\ status' = "disconnected"
    /\ volume' = 0
    /\ isSpeaking' = FALSE
    /\ addMessage("system", IF quota THEN "QuotaExceeded" ELSE "Disconnected")
    /\ lastOp' = "onDisconnect"
    /\ UNCHANGED <<limiterVars, classifierVars, clearVars>>
    /\ UNCHANGED <<emotion, isLoggedIn, authError, testIsSpeaking,
                   conversationRef, audioContextRef, storage, configured, flow,
                   closure, endAwait, authAwait, classifying, testTimers, detected, applied>>

\* reason.message mentions 'quota' or 'limit', or not: only the notice differs.
onDisconnect(s, quota) ==
    /\ transport[s] = "open"
    /\ transport' = [transport EXCEPT ![s] = "closed"]
    /\ isConnected' = FALSE
    /\ status' = "disconnected"
    /\ volume' = 0
    /\ emotion' = "sad"
    /\ isSpeaking' = FALSE
    /\ addMessage("system", IF quota THEN "QuotaExceeded" ELSE "Disconnected")
    /\ lastOp' = "onDisconnect"
    /\ UNCHANGED <<limiterVars, classifierVars, clearVars>>
    /\ UNCHANGED <<isLoggedIn, authError, testIsSpeaking, conversationRef,
                   audioContextRef, storage, configured, flow, closure,
                   endAwait, authAwait, classifying, testTimers, detected, applied>>

\* Mutant of onError: the speaking flag is not cleared.
onError_keepsSpeaking(s) ==
    /\ transport[s] \in {"starting", "open"}
    /\ status' = "error"
    /\ emotion' = "sad"
    /\ addMessage("system", "Error")
    /\ lastOp' = "onError"
    /\ UNCHANGED <<limiterVars, classifierVars, clearVars>>
    /\ UNCHANGED <<isConnected, isSpeaking, volume, isLoggedIn, authError,
                   testIsSpeaking, conversationRef, audioContextRef, storage,
                   configured, flow, closure, transport, endAwait, authAwait,
                   classifying, testTimers, detected, applied>>

onError(s) ==
    /\ transport[s] \in {"starting", "open"}
    /\ status' = "error"
    /\ emotion' = "sad"
    /\ isSpeaking' = FALSE
    /\ addMessage("system", "Error")
    /\ lastOp' = "onError"
    /\ UNCHANGED <<limiterVars, classifierVars, clearVars>>
    /\ UNCHANGED <<isConnected, volume, isLoggedIn, authError, testIsSpeaking,
                   conversationRef, audioContextRef, storage, configured, flow,
                   closure, transport, endAwait, authAwait, classifying,
                   testTimers, detected, applied>>

onModeChange(s, mode) ==
    /\ transport[s] \in {"open", "closed"}
    /\ status' = mode
    /\ isSpeaking' = (mode = "speaking")
    /\ lastOp' = "onModeChange"
    /\ UNCHANGED <<limiterVars, classifierVars, clearVars>>
    /\ UNCHANGED <<isConnected, messages, volume, emotion, isLoggedIn, authError,
                   testIsSpeaking, conversationRef, audioContextRef, storage,
                   configured, flow, closure, transport, endAwait, authAwait,
                   classifying, testTimers, detected, applied>>

\* onMessage with a non-empty message from source 'user' or 'ai'.
onMessage(s, source, text) ==
    /\ transport[s] = "open"
    /\ IF source = "user"
         THEN addUserMessage(text, emotion)
         ELSE /\ addMessage("assistant", "reply")
              /\ UNCHANGED <<emotion, classifying, detected, applied>>
    /\ lastOp' = "onMessage"
    /\ UNCHANGED <<limiterVars, classifierVars, clearVars>>
    /\ UNCHANGED <<isConnected, isSpeaking, status, volume, isLoggedIn, authError,
                   testIsSpeaking, conversationRef, audioContextRef, storage,
                   configured, flow, closure, transport, endAwait, authAwait,
                   testTimers>>

\* ------------------------------------------------------------- endConversation
\* The End button is rendered while isConnected is true (lines 776-797).
\* Lines 452-457: with no handle stored the if block is skipped and the
\* function returns; with a handle it suspends in endSession().
endConversation ==
    /\ isConnected
    /\ IF conversationRef = 0
         THEN /\ lastOp' = "endConversation"
              /\ UNCHANGED endAwait
         ELSE /\ endAwait < MaxEndAwait
              /\ endAwait' = endAwait + 1
              /\ lastOp' = "endSession"
    /\ UNCHANGED <<limiterVars, classifierVars, clearVars>>
    /\ UNCHANGED <<appVars, flow, closure, transport, authAwait, classifying,
                   testTimers, detected, applied>>

\* Mutant of endConversationResume: the teardown drops the suspended
\* classifier calls.
endConversationResume_cancels ==
    /\ endAwait > 0
    /\ endAwait' = endAwait - 1
    /\ conversationRef' = 0
    /\ isConnected' = FALSE
    /\ status' = "disconnected"
    /\ volume' = 0
    /\ emotion' = "neutral"
    /\ isSpeaking' = FALSE
    /\ addMessage("system", "ConversationEnded")
    /\ classifying' = <<>>
    /\ lastOp' = "endConversation"
    /\ UNCHANGED <<limiterVars, classifierVars, clearVars>>
    /\ UNCHANGED <<isLoggedIn, authError, testIsSpeaking, audioContextRef, storage,
                   configured, flow, closure, transport, authAwait,
                   testTimers, detected, applied>>

\* Lines 458-479: endSession() settled (resolved or rejected, both continue).
endConversationResume ==
    /\ endAwait > 0
    /\ endAwait' = endAwait - 1
    /\ conversationRef' = 0
    /\ isConnected' = FALSE
    /\ status' = "disconnected"
    /\ volume' = 0
    /\ emotion' = "neutral"
    /\ isSpeaking' = FALSE
    /\ addMessage("system", "ConversationEnded")
    /\ lastOp' = "endConversation"
    /\ UNCHANGED <<limiterVars, classifierVars, clearVars>>
    /\ UNCHANGED <<isLoggedIn, authError, testIsSpeaking, audioContextRef, storage,
                   configured, flow, closure, transport, authAwait, classifying,
                   testTimers, detected, applied>>
\* ------------------------------------------------------------- clear memory
\* What the two fields of the dialog can hold.
ClearNames == {"", "Bob ", "al"}
ClearPasswords == {"", "pw"}

\* (clearUsername || '').trim().toLowerCase() on ClearNames.
lowerName(name) == IF name = "Bob " THEN "bob" ELSE name

\* The two requests of handleConfirmClear.
LoginRequest(username, password) ==
    [path |-> "/login", username |-> username, password |-> password,
     userId |-> "", bearer |-> FALSE]
ClearRequest(userId) ==
    [path |-> "/mem0/clear", username |-> "", password |-> "",
     userId |-> userId, bearer |-> TRUE]

untouched_clear == <<isConnected, isSpeaking, status, volume, emotion, isLoggedIn,
                     authError, testIsSpeaking, conversationRef, audioContextRef,
                     storage, configured, flow, closure, transport, endAwait,
                     authAwait, classifying, testTimers, detected, applied,
                     limiterVars, classifierVars>>

\* openClearDialog (lines 198-203); the button is in the logged-in header, and
\* u is the username state.
openClearDialog(u) ==
    /\ isLoggedIn
    /\ clearUsername' = u
    /\ clearPassword' = ""
    /\ clearError' = FALSE
    /\ showClearDialog' = TRUE
    /\ lastOp' = "openClearDialog"
    /\ UNCHANGED <<messages, isClearing, authToken, clearCall, requests>>
    /\ UNCHANGED untouched_clear

\* The onChange handlers of the two fields (lines 603, 609).
typeClear(u, p) ==
    /\ showClearDialog
    /\ clearUsername' = u
    /\ clearPassword' = p
    /\ lastOp' = "typeClear"
    /\ UNCHANGED <<messages, showClearDialog, clearError, isClearing, authToken,
                   clearCall, requests>>
    /\ UNCHANGED untouched_clear

\* The Cancel button (lines 627-632), disabled while isClearing.
cancelClear ==
    /\ showClearDialog
    /\ ~isClearing
    /\ showClearDialog' = FALSE
    /\ lastOp' = "cancelClear"
    /\ UNCHANGED <<messages, clearUsername, clearPassword, clearError, isClearing,
                   authToken, clearCall, requests>>
    /\ UNCHANGED untouched_clear

\* Mutant of handleConfirmClear: the AUTH_TOKEN test is missing.
handleConfirmClear_noTokenTest ==
    /\ showClearDialog
    /\ ~isClearing
    /\ clearCall.pc = "idle"
    /\ IF clearUsername = "" \/ clearPassword = ""
         THEN /\ clearError' = TRUE
              /\ UNCHANGED <<isClearing, clearCall, requests>>
         ELSE /\ Len(requests) + 2 <= MaxRequests
              /\ clearError' = FALSE
              /\ isClearing' = TRUE
              /\ clearCall' = [pc |-> "login", username |-> clearUsername,
                               password |-> clearPassword]
              /\ requests' = Append(requests, LoginRequest(clearUsername, clearPassword))
    /\ lastOp' = "handleConfirmClear"
    /\ UNCHANGED <<messages, showClearDialog, clearUsername, clearPassword, authToken>>
    /\ UNCHANGED untouched_clear

\* handleConfirmClear, lines 206-229: the Confirm button (disabled while
\* isClearing), up to the await of the /login request.
handleConfirmClear ==
    /\ showClearDialog
    /\ ~isClearing
    /\ clearCall.pc = "idle"
    /\ IF clearUsername = "" \/ clearPassword = ""
         THEN /\ clearError' = TRUE
              /\ UNCHANGED <<isClearing, clearCall, requests>>
         ELSE IF ~authToken
         THEN /\ clearError' = TRUE
              /\ UNCHANGED <<isClearing, clearCall, requests>>
         ELSE /\ Len(requests) + 2 <= MaxRequests
              /\ clearError' = FALSE
              /\ isClearing' = TRUE
              /\ clearCall' = [pc |-> "login", username |-> clearUsername,
                               password |-> clearPassword]
              /\ requests' = Append(requests, LoginRequest(clearUsername, clearPassword))
    /\ lastOp' = "handleConfirmClear"
    /\ UNCHANGED <<messages, showClearDialog, clearUsername, clearPassword, authToken>>
    /\ UNCHANGED untouched_clear

\* Lines 231-247: the /login request settled.  ok is a 2xx response; a rejected
\* fetch and a non-2xx response both reach the catch and the finally block.
clearLoginResponse(ok) ==
    /\ clearCall.pc = "login"
    /\ IF ok
         THEN /\ clearCall' = [clearCall EXCEPT !.pc = "clear"]
              /\ requests' = Append(requests, ClearRequest(lowerName(clearCall.username)))
              /\ UNCHANGED <<clearError, isClearing>>
         ELSE /\ clearError' = TRUE
              /\ isClearing' = FALSE
              /\ clearCall' = NoClearCall
              /\ UNCHANGED requests
    /\ lastOp' = "clearLoginResponse"
    /\ UNCHANGED <<messages, showClearDialog, clearUsername, clearPassword, authToken>>
    /\ UNCHANGED untouched_clear

\* Lines 249-267: the /mem0/clear request settled.
clearResponse(ok) ==
    /\ clearCall.pc = "clear"
    /\ IF ok
         THEN /\ showClearDialog' = FALSE
              /\ clearPassword' = ""
              /\ clearError' = FALSE
              /\ addMessage("system", "MemoryCleared")
         ELSE /\ clearError' = TRUE
              /\ UNCHANGED <<showClearDialog, clearPassword, messages>>
    /\ isClearing' = FALSE
    /\ clearCall' = NoClearCall
    /\ lastOp' = "clearResponse"
    /\ UNCHANGED <<clearUsername, authToken, requests>>
    /\ UNCHANGED untouched_clear

\* ------------------------------------------------------------- test panel
\* const emotions = [...]; emotions[(emotions.indexOf(emotion) + 1) % 6]
emotionList == <<"neutral", "happy", "sad", "angry", "surprised", "confused">>
indexOf(e) == CHOOSE i \in 1..Len(emotionList) : emotionList[i] = e
nextEmotion(e) == emotionList[(indexOf(e) % Len(emotionList)) + 1]

cycleEmotion ==
    /\ emotion' = nextEmotion(emotion)
    /\ addMessage("system", "TestEmotion")
    /\ lastOp' = "cycleEmotion"
    /\ UNCHANGED <<limiterVars, classifierVars, clearVars>>
    /\ UNCHANGED <<isConnected, isSpeaking, status, volume, isLoggedIn, authError,
                   testIsSpeaking, conversationRef, audioContextRef, storage,
                   configured, flow, closure, transport, endAwait, authAwait,
                   classifying, testTimers, detected, applied>>

\* toggleTestSpeaking (lines 490-505): switching on also arms a 3 s timeout.
toggleTestSpeaking ==
    /\ testIsSpeaking' = ~testIsSpeaking
    /\ isSpeaking' = ~testIsSpeaking
    /\ IF ~testIsSpeaking
         THEN testTimers < MaxTestTimers /\ testTimers' = testTimers + 1
         ELSE UNCHANGED testTimers
    /\ lastOp' = "toggleTestSpeaking"
    /\ UNCHANGED <<limiterVars, classifierVars, clearVars>>
    /\ UNCHANGED <<isConnected, status, messages, volume, emotion, isLoggedIn,
                   authError, conversationRef, audioContextRef, storage, configured,
                   flow, closure, transport, endAwait, authAwait, classifying,
                   detected, applied>>

\* The timeout armed by toggleTestSpeaking fires (lines 498-503).
testSpeakingTimeout ==
    /\ testTimers > 0
    /\ testTimers' = testTimers - 1
    /\ testIsSpeaking' = FALSE
    /\ isSpeaking' = FALSE
    /\ lastOp' = "testSpeakingTimeout"
    /\ UNCHANGED <<limiterVars, classifierVars, clearVars>>
    /\ UNCHANGED <<isConnected, status, messages, volume, emotion, isLoggedIn,
                   authError, conversationRef, audioContextRef, storage, configured,
                   flow, closure, transport, endAwait, authAwait, classifying,
                   detected, applied>>

\* The five emotion test buttons (lines 660-705): setEmotion(e), then
\* addMessage('user', <a fixed sentence>).
TestButtonEmotions == {"happy", "sad", "angry", "surprised", "confused"}

emotionTest(e) ==
    /\ addUserMessage("hello", e)
    /\ lastOp' = "emotionTest"
    /\ UNCHANGED <<limiterVars, classifierVars, clearVars>>
    /\ UNCHANGED <<isConnected, isSpeaking, status, volume, isLoggedIn, authError,
                   testIsSpeaking, conversationRef, audioContextRef, storage,
                   configured, flow, closure, transport, endAwait, authAwait,
                   testTimers>>

\* ------------------------------------------------------------- specifications
Auth ==
    \/ \E filled \in BOOLEAN : handleAuth(filled)
    \/ \E ok \in BOOLEAN : handleAuthResponse(ok)
    \/ handleLogout

Start ==
    \/ \E s \in Sessions : startConversation(s)
    \/ \E s \in Sessions : micGranted(s)
    \/ \E s \in Sessions : micDenied(s)
    \/ \E s \in Sessions, v \in VolumeSamples : sessionCreated(s, v)
    \/ \E s \in Sessions : sessionFailed(s)

Transport ==
    \/ \E s \in Sessions : onConnect(s)
    \/ \E s \in Sessions, quota \in BOOLEAN : onDisconnect(s, quota)
    \/ \E s \in Sessions : onError(s)
    \/ \E s \in Sessions, mode \in Modes : onModeChange(s, mode)
    \/ \E s \in Sessions, source \in {"user", "ai"}, text \in UserTexts :
           onMessage(s, source, text)

End ==
    \/ endConversation
    \/ endConversationResume

Classify == \E i \in 1..MaxUser, reply \in HFReplies : classified(i, reply)

TestPanel ==
    \/ cycleEmotion
    \/ toggleTestSpeaking
    \/ testSpeakingTimeout
    \/ \E e \in TestButtonEmotions : emotionTest(e)

\* The session machine of a stored or logged-in user: the conversation
\* handlers, the transport callbacks, the classifier and Logout.
NextSession == handleLogout \/ Start \/ Transport \/ End \/ Classify
Spec == Init /\ [][NextSession]_vars

\* The session machine with the test panel's speaking simulation.
NextTestSpeaking == NextSession \/ toggleTestSpeaking \/ testSpeakingTimeout
SpecTestSpeaking == Init /\ [][NextTestSpeaking]_vars

\* The session machine with the login form.
NextLogin == NextSession \/ Auth
SpecLogin == Init /\ [][NextLogin]_vars

\* The login form and Logout alone.
SpecAuth == Init /\ [][Auth]_vars

\* The login gate: the login form, Logout and the start of a session, with
\* startConversation also invoked while nobody is logged in.
NextGate ==
    \/ Auth
    \/ Start
    \/ \E s \in Sessions : startConversationLoggedOut(s)
    \/ \E s \in Sessions : onConnect(s)
    \/ \E s \in Sessions, quota \in BOOLEAN : onDisconnect(s, quota)
    \/ End
SpecGate == Init /\ [][NextGate]_vars

\* The clear-memory dialog of a stored user, with Logout, for a build with or
\* without VITE_AUTH_TOKEN.
InitClear ==
    /\ InitApp
    /\ impl = "hf"
    /\ apiKey = "set"
    /\ job = NoJob
    /\ authToken \in BOOLEAN
NextClear ==
    \/ handleLogout
    \/ \E u \in ClearNames : openClearDialog(u)
    \/ \E u \in ClearNames, p \in ClearPasswords : typeClear(u, p)
    \/ cancelClear
    \/ handleConfirmClear
    \/ \E ok \in BOOLEAN : clearLoginResponse(ok)
    \/ \E ok \in BOOLEAN : clearResponse(ok)
SpecClear == InitClear /\ [][NextClear]_vars

\* The whole component: the session machine, the login form and the test panel.
NextApp == NextSession \/ Auth \/ TestPanel
SpecApp == Init /\ [][NextApp]_vars
\* ------------------------------------------------------------- rate limiter steps
\* Calls are numbered in the order they are made.
NextCall(c) == calls[c].pc = "idle" /\ \A d \in Calls : d < c => calls[d].pc # "idle"

\* analyzeEmotionWithGemini(text), lines 94-107, up to its first suspension.
classify(c, text) ==
    /\ NextCall(c)
    /\ LET w    == waitTime(clock, lastRequestTime)
           prev == c > 1 /\ calls[c - 1].pc \in {"passed", "done"}
           me   == [NoCall EXCEPT !.text = text, !.issuedAt = clock,
                                  !.afterPrev = prev]
       IN  IF isBlank(text)
             THEN /\ calls' = [calls EXCEPT ![c] = [me EXCEPT !.pc = "done"]]
                  /\ UNCHANGED lastRequestTime
           ELSE IF w > 0
             THEN /\ calls' = [calls EXCEPT ![c] =
                                  [me EXCEPT !.pc = "waiting", !.wakeAt = clock + w]]
                  /\ UNCHANGED lastRequestTime
             ELSE /\ calls' = [calls EXCEPT ![c] =
                                  [me EXCEPT !.pc = "passed", !.passedAt = clock]]
                  /\ lastRequestTime' = clock
    /\ UNCHANGED clock
    /\ UNCHANGED <<appVars, procVars, classifierVars, clearVars>>

\* A timer never fires before its delay has elapsed; it may fire later.
timerDue(c) == clock >= calls[c].wakeAt

\* Line 107 after the setTimeout of line 105 fired.
wake(c) ==
    /\ calls[c].pc = "waiting"
    /\ timerDue(c)
    /\ lastRequestTime' = clock
    /\ calls' = [calls EXCEPT ![c] = [@ EXCEPT !.pc = "passed", !.passedAt = clock]]
    /\ UNCHANGED clock
    /\ UNCHANGED <<appVars, procVars, classifierVars, clearVars>>

\* Lines 119-130: the provider attempt settles and the call returns.
settle(c) ==
    /\ calls[c].pc = "passed"
    /\ calls' = [calls EXCEPT ![c] = [@ EXCEPT !.pc = "done"]]
    /\ UNCHANGED <<clock, lastRequestTime>>
    /\ UNCHANGED <<appVars, procVars, classifierVars, clearVars>>

tick ==
    /\ clock < StartTime + MaxTicks * Tick
    /\ clock' = clock + Tick
    /\ UNCHANGED <<lastRequestTime, calls>>
    /\ UNCHANGED <<appVars, procVars, classifierVars, clearVars>>

NextLimiter ==
    \/ \E c \in Calls, text \in UserTexts : classify(c, text)
    \/ \E c \in Calls : wake(c)
    \/ \E c \in Calls : settle(c)
    \/ tick

\* The classifier's rate limiter under a clock.
SpecLimiter == Init /\ [][NextLimiter]_vars
\* ------------------------------------------------------------- one classify call
ClassifyTexts == UserTexts \cup {""}

Returned(j, result) == [j EXCEPT !.pc = "done", !.result = result]
Requesting(j) ==
    [j EXCEPT !.pc = "fetching", !.attempt = @ + 1, !.fetches = @ + 1,
              !.prevStartedAt = j.startedAt, !.startedAt = clock]
\* lastRequestTime = Date.now() as seen from the call.
Acquired(j) == [j EXCEPT !.acquired = @ + 1, !.acquiredAt = clock]

\* What the call does once it is past the limiter: emotionAnalysis.js lines
\* 118-130 with 14-17 (the key test throws, the caller's catch returns the
\* fallback); the cascades start on their first model name.
afterLimiter(j) ==
    IF impl = "hf" /\ ~keyConfigured(apiKey)
        THEN Returned(j, Result(FALSE, "neutral", Undefined, {}, TRUE))
        ELSE Requesting(j)

\* The call up to its first suspension or its early return.
jobCall(text) ==
    /\ job.pc = "idle"
    /\ LET me == [NoJob EXCEPT !.text = text]
           w  == waitTime(clock, lastRequestTime)
       IN  IF isBlank(text)
             THEN /\ job' = Returned(me, Result(FALSE, "neutral", Undefined, {}, FALSE))
                  /\ UNCHANGED lastRequestTime
           ELSE IF impl \in Cascades /\ ~keyConfigured(apiKey)
             THEN /\ job' = Returned(me, Result(FALSE, "neutral", Undefined, {}, FALSE))
                  /\ UNCHANGED lastRequestTime
           ELSE IF impl = "ai"
             THEN /\ job' = Requesting(me)
                  /\ UNCHANGED lastRequestTime
           ELSE IF w > 0
             THEN /\ job' = [me EXCEPT !.pc = "waiting", !.wakeAt = clock + w]
                  /\ UNCHANGED lastRequestTime
             ELSE /\ job' = afterLimiter(Acquired(me))
                  /\ lastRequestTime' = clock
    /\ UNCHANGED <<impl, apiKey, clock, calls>>
    /\ UNCHANGED <<appVars, procVars, clearVars>>

\* Mutant of jobWake: lastRequestTime is not written after the wait.
jobWake_noStamp ==
    /\ job.pc = "waiting"
    /\ clock >= job.wakeAt
    /\ UNCHANGED lastRequestTime
    /\ job' = afterLimiter(Acquired(job))
    /\ UNCHANGED <<impl, apiKey, clock, calls>>
    /\ UNCHANGED <<appVars, procVars, clearVars>>

\* The limiter's timer fired: lastRequestTime = Date.now(), then the provider.
jobWake ==
    /\ job.pc = "waiting"
    /\ clock >= job.wakeAt
    /\ lastRequestTime' = clock
    /\ job' = afterLimiter(Acquired(job))
    /\ UNCHANGED <<impl, apiKey, clock, calls>>
    /\ UNCHANGED <<appVars, procVars, clearVars>>

\* emotionAnalysis.js: the one Hugging Face request settles and the call returns.
jobReply_hf(reply) ==
    /\ impl = "hf"
    /\ job.pc = "fetching"
    /\ LET r == analyzeEmotionWithGemini(job.text, reply)
       IN  job' = [Returned(job, r) EXCEPT !.reply = reply,
                       !.okAt = IF r.error THEN 0 ELSE job.attempt]
    /\ UNCHANGED <<impl, apiKey, lastRequestTime, clock, calls>>
    /\ UNCHANGED <<appVars, procVars, clearVars>>

\* part_002, analyzeEmotionWithAI: its request settles and the call returns.
jobReply_ai(reply) ==
    /\ impl = "ai"
    /\ job.pc = "fetching"
    /\ LET r == analyzeEmotionWithAI(job.text, reply)
       IN  job' = [Returned(job, r) EXCEPT !.reply = reply,
                       !.okAt = IF r.error THEN 0 ELSE job.attempt]
    /\ UNCHANGED <<impl, apiKey, lastRequestTime, clock, calls>>
    /\ UNCHANGED <<appVars, procVars, clearVars>>

\* Mutant of jobReply_cascade: a success is kept but the remaining model names
\* are still tried.
jobReply_cascade_noShortCircuit(reply) ==
    /\ impl \in Cascades
    /\ job.pc = "fetching"
    /\ LET a == tryModel(impl, reply)
           kept == IF a.ok /\ job.okAt = 0
                     THEN [job EXCEPT !.result = a.result, !.okAt = job.attempt]
                     ELSE job
       IN  IF job.attempt < Len(modelNames(impl))
             THEN job' = [Requesting(kept) EXCEPT !.reply = reply]
             ELSE job' = [Returned(kept, IF kept.okAt > 0 THEN kept.result
                                         ELSE allModelsFailed)
                            EXCEPT !.reply = reply]
    /\ UNCHANGED <<impl, apiKey, lastRequestTime, clock, calls>>
    /\ UNCHANGED <<appVars, procVars, clearVars>>

\* Mutant of jobReply_cascade: the first failure ends the call with the
\* fallback.
jobReply_cascade_abortsOnFailure(reply) ==
    /\ impl \in Cascades
    /\ job.pc = "fetching"
    /\ LET a == tryModel(impl, reply)
       IN  IF a.ok
             THEN job' = [Returned(job, a.result) EXCEPT !.reply = reply,
                              !.okAt = job.attempt]
             ELSE job' = [Returned(job, allModelsFailed) EXCEPT !.reply = reply]
    /\ UNCHANGED <<impl, apiKey, lastRequestTime, clock, calls>>
    /\ UNCHANGED <<appVars, procVars, clearVars>>

\* Mutant of jobReply_cascade: a failed attempt is repeated with the same
\* model name.
jobReply_cascade_retriesSame(reply) ==
    /\ impl \in Cascades
    /\ job.pc = "fetching"
    /\ LET a == tryModel(impl, reply)
       IN  IF a.ok
             THEN job' = [Returned(job, a.result) EXCEPT !.reply = reply,
                              !.okAt = job.attempt]
             ELSE job' = [job EXCEPT !.reply = reply]
    /\ UNCHANGED <<impl, apiKey, lastRequestTime, clock, calls>>
    /\ UNCHANGED <<appVars, procVars, clearVars>>

\* The cascades: the request for the current model name settles; a success
\* returns, a failure moves on to the next name or, after the last, returns the
\* fallback.
jobReply_cascade(reply) ==
    /\ impl \in Cascades
    /\ job.pc = "fetching"
    /\ LET a == tryModel(impl, reply)
       IN  IF a.ok
             THEN job' = [Returned(job, a.result) EXCEPT !.reply = reply,
                              !.okAt = job.attempt]
           ELSE IF job.attempt < Len(modelNames(impl))
             THEN job' = [Requesting(job) EXCEPT !.reply = reply]
             ELSE job' = [Returned(job, allModelsFailed) EXCEPT !.reply = reply]
    /\ UNCHANGED <<impl, apiKey, lastRequestTime, clock, calls>>
    /\ UNCHANGED <<appVars, procVars, clearVars>>

\* The caller has its result and may call again.
jobNext ==
    /\ job.pc = "done"
    /\ job' = NoJob
    /\ UNCHANGED <<impl, apiKey, lastRequestTime, clock, calls>>
    /\ UNCHANGED <<appVars, procVars, clearVars>>

\* An earlier call passed the limiter at time `last`.
earlierCall(last) ==
    /\ job.pc = "idle"
    /\ lastRequestTime = 0
    /\ impl # "ai"
    /\ lastRequestTime' = last
    /\ UNCHANGED <<impl, apiKey, job, clock, calls>>
    /\ UNCHANGED <<appVars, procVars, clearVars>>

\* Any of the five versions, with any key.
InitClassifier ==
    /\ InitApp
    /\ ~storage
    /\ configured
    /\ impl \in Impls
    /\ apiKey \in Keys
    /\ job = NoJob
    /\ authToken = TRUE

NextClassifier ==
    \/ \E text \in ClassifyTexts : jobCall(text)
    \/ jobWake
    \/ \E reply \in HFReplies : jobReply_hf(reply)
    \/ \E reply \in HFReplies : jobReply_ai(reply)
    \/ \E reply \in GeminiReplies : jobReply_cascade(reply)
    \/ jobNext
    \/ tick

SpecClassifier == InitClassifier /\ [][NextClassifier]_vars

\* Time passes while the call waits in the limiter's setTimeout.
timerTick ==
    /\ job.pc = "waiting"
    /\ clock < job.wakeAt
    /\ clock' = clock + Tick
    /\ UNCHANGED <<lastRequestTime, calls>>
    /\ UNCHANGED <<appVars, procVars, classifierVars, clearVars>>

\* One classify call made at StartTime, an earlier call having passed the
\* limiter long before, one tick before, or at the same instant; timers fire
\* and every provider request settles.
InitTermination ==
    /\ InitApp
    /\ ~storage
    /\ configured
    /\ impl \in Impls
    /\ apiKey \in Keys
    /\ job = NoJob
    /\ authToken = TRUE
NextTermination ==
    \/ \E last \in {StartTime - Tick, StartTime} : earlierCall(last)
    \/ \E text \in ClassifyTexts : jobCall(text)
    \/ timerTick
    \/ jobWake
    \/ \E reply \in HFReplies : jobReply_hf(reply)
    \/ \E reply \in HFReplies : jobReply_ai(reply)
    \/ \E reply \in GeminiReplies : jobReply_cascade(reply)
SpecTermination ==
    /\ InitTermination
    /\ [][NextTermination]_vars
    /\ WF_vars(timerTick)
    /\ WF_vars(jobWake)
    /\ WF_vars(\E reply \in HFReplies : jobReply_hf(reply))
    /\ WF_vars(\E reply \in HFReplies : jobReply_ai(reply))
    /\ WF_vars(\E reply \in GeminiReplies : jobReply_cascade(reply))
\* ------------------------------------------------------------- the earlier App
\* src/unnamed/part_003 holds an earlier App component (its lines 1-540).  Its
\* handlers differ from the ones above where noted; micGranted, sessionCreated,
\* onMessage, classified and endConversation do the same there.
untouched_p3 == <<isLoggedIn, authError, testIsSpeaking, storage, configured,
                  authAwait, testTimers, limiterVars, classifierVars, clearVars>>

\* Its Start button is disabled only while status is 'connecting' (line 456).
StartEnabled_p3 == ~isConnected /\ status # "connecting"

\* Its catch block (lines 299-313) leaves isSpeaking alone.
startFailed_p3 ==
    /\ status' = "error"
    /\ isConnected' = FALSE
    /\ emotion' = "sad"
    /\ addMessage("system", "StartFailed")

\* Lines 169-198: no login check, no reset of isSpeaking.
startConversation_p3(s) ==
    /\ StartEnabled_p3
    /\ FreshSession(s)
    /\ IF ~configured
         THEN /\ startFailed_p3
              /\ flow' = [flow EXCEPT ![s] = "failed"]
              /\ UNCHANGED <<audioContextRef, closure>>
         ELSE /\ status' = "connecting"
              /\ addMessage("system", "Connecting")
              /\ audioContextRef' = TRUE
              /\ flow' = [flow EXCEPT ![s] = "mic"]
              /\ closure' = [closure EXCEPT ![s] = isConnected]
              /\ UNCHANGED <<isConnected, emotion>>
    /\ lastOp' = "startConversation"
    /\ UNCHANGED <<isSpeaking, volume, conversationRef, transport, endAwait,
                   classifying, detected, applied, untouched_p3>>

micDenied_p3(s) ==
    /\ flow[s] = "mic"
    /\ flow' = [flow EXCEPT ![s] = "failed"]
    /\ startFailed_p3
    /\ lastOp' = "micDenied"
    /\ UNCHANGED <<isSpeaking, volume, conversationRef, audioContextRef, closure,
                   transport, endAwait, classifying, detected, applied, untouched_p3>>

sessionFailed_p3(s) ==
    /\ flow[s] = "session"
    /\ transport[s] = "starting"
    /\ flow' = [flow EXCEPT ![s] = "failed"]
    /\ transport' = [transport EXCEPT ![s] = "failed"]
    /\ startFailed_p3
    /\ lastOp' = "sessionFailed"
    /\ UNCHANGED <<isSpeaking, volume, conversationRef, audioContextRef, closure,
                   endAwait, classifying, detected, applied, untouched_p3>>

\* Lines 204-210.
onConnect_p3(s) ==
    /\ transport[s] = "starting"
    /\ transport' = [transport EXCEPT ![s] = "open"]
    /\ isConnected' = TRUE
    /\ status' = "connected"
    /\ emotion' = "neutral"
    /\ addMessage("system", "Connected")
    /\ lastOp' = "onConnect"
    /\ UNCHANGED <<isSpeaking, volume, conversationRef, audioContextRef, flow,
                   closure, endAwait, classifying, detected, applied, untouched_p3>>

\* Lines 212-227.
onDisconnect_p3(s, quota) ==
    /\ transport[s] = "open"
    /\ transport' = [transport EXCEPT ![s] = "closed"]
    /\ isConnected' = FALSE
    /\ status' = "disconnected"
    /\ volume' = 0
    /\ emotion' = "sad"
    /\ addMessage("system", IF quota THEN "QuotaExceeded" ELSE "Disconnected")
    /\ lastOp' = "onDisconnect"
    /\ UNCHANGED <<isSpeaking, conversationRef, audioContextRef, flow, closure,
                   endAwait, classifying, detected, applied, untouched_p3>>

\* Lines 229-235.
onError_p3(s) ==
    /\ transport[s] \in {"starting", "open"}
    /\ status' = "error"
    /\ emotion' = "sad"
    /\ addMessage("system", "Error")
    /\ lastOp' = "onError"
    /\ UNCHANGED <<isConnected, isSpeaking, volume, conversationRef,
                   audioContextRef, flow, closure, transport, endAwait,
                   classifying, detected, applied, untouched_p3>>

\* Lines 266-275: mode 'thinking' also sets the emotion to 'thinking'.
onModeChange_p3(s, mode) ==
    /\ transport[s] \in {"open", "closed"}
    /\ status' = mode
    /\ isSpeaking' = (mode = "speaking")
    /\ emotion' = IF mode = "thinking" THEN "thinking" ELSE emotion
    /\ lastOp' = "onModeChange"
    /\ UNCHANGED <<isConnected, messages, volume, conversationRef, audioContextRef,
                   flow, closure, transport, endAwait, classifying, detected, applied,
                   untouched_p3>>

\* Lines 321-335: no reset of isSpeaking.
endConversationResume_p3 ==
    /\ endAwait > 0
    /\ endAwait' = endAwait - 1
    /\ conversationRef' = 0
    /\ isConnected' = FALSE
    /\ status' = "disconnected"
    /\ volume' = 0
    /\ emotion' = "neutral"
    /\ addMessage("system", "ConversationEnded")
    /\ lastOp' = "endConversation"
    /\ UNCHANGED <<isSpeaking, audioContextRef, flow, closure, transport,
                   classifying, detected, applied, untouched_p3>>

\* It has no mount effect that logs a stored user in.
Init_p3 == Init /\ ~storage

Next_p3 ==
    \/ \E s \in Sessions : startConversation_p3(s)
    \/ \E s \in Sessions : micGranted(s)
    \/ \E s \in Sessions : micDenied_p3(s)
    \/ \E s \in Sessions, v \in VolumeSamples : sessionCreated(s, v)
    \/ \E s \in Sessions : sessionFailed_p3(s)
    \/ \E s \in Sessions : onConnect_p3(s)
    \/ \E s \in Sessions, quota \in BOOLEAN : onDisconnect_p3(s, quota)
    \/ \E s \in Sessions : onError_p3(s)
    \/ \E s \in Sessions, mode \in Modes : onModeChange_p3(s, mode)
    \/ \E s \in Sessions, source \in {"user", "ai"}, text \in UserTexts :
           onMessage(s, source, text)
    \/ endConversation
    \/ endConversationResume_p3
    \/ Classify

Spec_p3 == Init_p3 /\ [][Next_p3]_vars
\* ============================================================= claims
Last(seq) == seq[Len(seq)]
Appended(role) ==
    /\ Len(messages') = Len(messages) + 1
    /\ Last(messages').role = role

\* C1: whenever a classification of a user utterance resolves with emotion
\* 'neutral', the emotion shown becomes 'happy', not 'neutral'.
C1_NeutralShowsHappy ==
    [][ (Len(detected') = Len(detected) + 1 /\ Last(detected') = "neutral")
          => emotion' = "happy" ]_vars

\* C1 witness: an utterance classified happy, then one classified neutral by the
\* provider, and the emotion is happy.
C1_Witness ==
    /\ lastOp = "classified"
    /\ Len(detected) = 2
    /\ detected[1] = "happy"
    /\ detected[2] = "neutral"
    /\ emotion = "happy"

\* C2: a mode change leaves the emotion unchanged for every mode, and appending
\* an assistant or system utterance neither changes the emotion by itself nor
\* starts a classification.
C2_OnlyUserUtterancesMoveEmotion ==
    [][ /\ lastOp' = "onModeChange" => emotion' = emotion
        /\ (lastOp' = "onMessage" /\ Appended("assistant")) => emotion' = emotion
        /\ (Appended("assistant") \/ Appended("system"))
              => (classifying' = classifying /\ detected' = detected) ]_vars

\* C3: speaking (status 'speaking' or isSpeaking) implies connected, for any
\* ordering of transport callbacks, startConversation and endConversation.
C3_SpeakingImpliesConnected ==
    (status = "speaking" \/ isSpeaking) => isConnected

\* C4 as stated: status 'disconnected' implies not speaking and volume 0.
C4_DisconnectedIsIdle ==
    status = "disconnected" => (~isSpeaking /\ volume = 0)

\* C4 amended: status 'disconnected' implies not speaking and volume 0, unless
\* the test panel's speaking simulation is switched on.
C4_DisconnectedIsIdleOutsideTest ==
    (status = "disconnected" /\ ~testIsSpeaking) => (~isSpeaking /\ volume = 0)

\* C4 witness: the speaking simulation has been used and is off again, and a
\* session has just been disconnected: not speaking, volume 0.
C4_Witness ==
    /\ lastOp = "onDisconnect"
    /\ status = "disconnected"
    /\ ~testIsSpeaking
    /\ testTimers > 0
    /\ ~isSpeaking
    /\ volume = 0

\* C5: onDisconnect, from every prior state and for every reason, leaves the
\* session disconnected with volume 0 and emotion 'sad'.
C5_OnDisconnectResets ==
    lastOp = "onDisconnect" =>
        (status = "disconnected" /\ ~isConnected /\ volume = 0 /\ emotion = "sad")

\* C5 witness: onDisconnect ran right after an error had been reported.
C5_Witness ==
    /\ lastOp = "onDisconnect"
    /\ Len(messages) >= 2
    /\ messages[Len(messages) - 1].content = "Error"
    /\ Last(messages).content = "QuotaExceeded"
    /\ emotion = "sad"

\* C6: endConversation, invoked in any state, returns with status
\* 'disconnected', volume 0, emotion 'neutral' and isSpeaking false.
C6_EndConversationResets ==
    lastOp = "endConversation" =>
        (status = "disconnected" /\ volume = 0 /\ emotion = "neutral" /\ ~isSpeaking)

C8_OnErrorForcesErrorState ==
    [][ /\ lastOp' = "onError" =>
              /\ status' = "error" /\ emotion' = "sad" /\ ~isSpeaking'
              /\ flow' = flow /\ transport' = transport
        /\ (status' = "connecting" /\ status # "connecting")
              => lastOp' = "startConversation" ]_vars

\* C8 witness: onError ran on a connected session.
C8_Witness ==
    /\ lastOp = "onError"
    /\ isConnected
    /\ status = "error"
    /\ emotion = "sad"
    /\ ~isSpeaking

\* C9: once status is 'error', no step other than startConversation or
\* endConversation moves it to 'listening', 'thinking' or 'speaking'.
C9_ErrorIsSticky ==
    [][ (status = "error" /\ status' \in Modes)
          => lastOp' \in {"startConversation", "endConversation"} ]_vars

\* C10: of two consecutive classify calls with non-empty text, the second made
\* less than 3000 ms after the first passed the limiter, the second passes no
\* earlier than 3000 ms after the first did.
Passed(c) == calls[c].pc \in {"passed", "done"} /\ ~isBlank(calls[c].text)
CloseAfter(i, j) ==
    /\ j = i + 1
    /\ Passed(i)
    /\ calls[j].pc # "idle"
    /\ ~isBlank(calls[j].text)
    /\ calls[j].afterPrev
    /\ calls[j].issuedAt < calls[i].passedAt + MIN_REQUEST_INTERVAL

C10_SecondCallDelayed ==
    \A i, j \in Calls :
        (CloseAfter(i, j) /\ Passed(j))
            => calls[j].passedAt >= calls[i].passedAt + MIN_REQUEST_INTERVAL

\* C10 witness: such a second call waited and has passed.
C10_Witness ==
    \E i, j \in Calls :
        /\ CloseAfter(i, j)
        /\ Passed(j)
        /\ calls[j].issuedAt > calls[i].passedAt
        /\ calls[j].wakeAt > calls[j].issuedAt

\* C11: any two calls that passed the rate limiter did so at least
\* MIN_REQUEST_INTERVAL apart, however the calls overlap.
C11_AcquisitionsSpaced ==
    \A i, j \in Calls :
        (i < j /\ Passed(i) /\ Passed(j))
            => \/ calls[j].passedAt >= calls[i].passedAt + MIN_REQUEST_INTERVAL
               \/ calls[i].passedAt >= calls[j].passedAt + MIN_REQUEST_INTERVAL

\* C12: for an empty or whitespace-only text the call returns exactly
\* {emotion: 'neutral', scores: {}}, with no error field, and issues no network
\* request at any point.
C12_BlankIsNeutralOffline ==
    (job.pc # "idle" /\ job.text \in {"", " "}) =>
        /\ job.pc = "done"
        /\ job.fetches = 0
        /\ ~job.result.thrown
        /\ job.result.emotion = "neutral"
        /\ job.result.scores = {}
        /\ job.result.confidence = Undefined
        /\ ~job.result.error

\* C12 witness: a whitespace-only text was classified by the current version
\* with its key set.
C12_Witness ==
    /\ impl = "hf"
    /\ apiKey = "set"
    /\ job.pc = "done"
    /\ job.text = " "
    /\ job.result.emotion = "neutral"
    /\ job.fetches = 0

\* C13: when the first provider attempt succeeds the call returns that attempt's
\* result after exactly one network request; no later model name is tried.
C13_FirstSuccessShortCircuits ==
    /\ (job.fetches >= 1 /\ job.okAt = 1) =>
          /\ job.pc = "done"
          /\ job.fetches = 1
          /\ job.attempt = 1
          /\ ~job.result.thrown /\ ~job.result.error
    /\ (impl \in Cascades /\ job.attempt = 1
            /\ job.reply = GeminiReply("text", <<"{", "J_happy", "}">>)) =>
          /\ job.pc = "done"
          /\ job.fetches = 1
          /\ job.result.emotion = "happy" /\ job.result.confidence = 90
    /\ (impl = "hf" /\ job.attempt = 1
            /\ job.reply = Reply("nested", <<Pair("joy", 90), Pair("anger", 10)>>)) =>
          /\ job.pc = "done"
          /\ job.fetches = 1
          /\ job.result.emotion = "happy" /\ job.result.confidence = 90

\* C13 witness: the REST cascade returned the first model's reply.
C13_Witness ==
    /\ impl = "rest"
    /\ job.pc = "done"
    /\ job.okAt = 1
    /\ job.fetches = 1
    /\ job.reply = GeminiReply("text", <<"a", "{", "J_sad", "}", "a">>)
    /\ job.result.emotion = "sad"

\* C14: when every provider attempt of a call has failed, the call returns
\* emotion 'neutral' with empty scores and an error field.
C14_AllFailedIsNeutralWithError ==
    (job.pc = "done" /\ job.fetches >= 1 /\ job.okAt = 0) =>
        /\ ~job.result.thrown
        /\ job.result.emotion = "neutral"
        /\ job.result.scores = {}
        /\ job.result.error

\* C14 witness: the six-name SDK cascade failed on every name.
C14_Witness ==
    /\ impl = "sdk1"
    /\ job.pc = "done"
    /\ job.okAt = 0
    /\ job.fetches = Len(modelNames("sdk1"))
    /\ job.reply.kind = "http"
    /\ job.result.emotion = "neutral"
    /\ job.result.error

\* C15: a classify call never rejects: whatever the text and whatever the
\* provider does, the call returns a result value.
C15_NeverThrows ==
    /\ job.pc = "done" => ~job.result.thrown
    /\ \A text \in ClassifyTexts, reply \in HFReplies :
          ~analyzeEmotionWithGemini(text, reply).thrown

\* C15 witness: the provider's body was not JSON and the call still returned.
C15_Witness ==
    /\ impl = "hf"
    /\ job.pc = "done"
    /\ job.reply.kind = "badjson"
    /\ ~job.result.thrown
    /\ job.result.emotion = "neutral"

\* C16: with the provider key missing or equal to the placeholder, a call with
\* a non-empty text issues no network request and returns emotion 'neutral'
\* (the versions that test a key: emotionAnalysis.js and the Gemini versions).
C16_NoKeyNoNetwork ==
    (impl # "ai" /\ apiKey \in {"missing", "placeholder"}
        /\ job.pc # "idle" /\ job.text = "hello") =>
        /\ job.fetches = 0
        /\ job.pc \in {"waiting", "done"}
        /\ job.pc = "done" => (~job.result.thrown /\ job.result.emotion = "neutral")

\* C16 witness: the current version, built with the placeholder key, returned
\* neutral for a sentence after passing the limiter.
C16_Witness ==
    /\ impl = "hf"
    /\ apiKey = "placeholder"
    /\ job.pc = "done"
    /\ job.text = "hello"
    /\ job.fetches = 0
    /\ job.result.emotion = "neutral"
    /\ lastRequestTime = clock

\* C17: for a reply that is a nested list of {label, score} pairs, the result's
\* confidence is the maximum score and its emotion is the mapped label of a
\* pair with that score; [[{joy, 0.9}, {anger, 0.1}]] gives happy, 0.9.
C17_TopScoreIsMapped ==
    (impl = "hf" /\ job.pc = "done" /\ job.reply.kind = "nested"
        /\ Len(job.reply.pairs) > 0) =>
        LET pairs == job.reply.pairs
        IN  /\ \A k \in 1..Len(pairs) : pairs[k].score <= job.result.confidence
            /\ \E k \in 1..Len(pairs) :
                  /\ pairs[k].score = job.result.confidence
                  /\ job.result.emotion = emotionMapping(toLowerCase(pairs[k].label))
            /\ pairs = <<Pair("joy", 90), Pair("anger", 10)>>
                  => (job.result.emotion = "happy" /\ job.result.confidence = 90)

\* C17 witness: the top pair is not the first one and its label is upper case.
C17_Witness ==
    /\ impl = "hf"
    /\ job.pc = "done"
    /\ job.reply = Reply("nested", <<Pair("fear", 30), Pair("SADNESS", 70)>>)
    /\ job.result.emotion = "sad"
    /\ job.result.confidence = 70

\* The label-to-emotion table as the specification states it.
StatedTable(label) ==
    CASE label \in {"joy", "happiness"}         -> "happy"
      [] label \in {"sadness", "fear", "disgust"} -> "sad"
      [] label = "anger"                         -> "angry"
      [] label = "surprise"                      -> "surprised"
      [] OTHER                                   -> "neutral"

\* C18: the emotion returned for a list of {label, score} pairs is the stated
\* table's entry for the lower-cased label of a top-scoring pair (joy and
\* happiness to happy; sadness, fear and disgust to sad; anger to angry;
\* surprise to surprised; neutral and every other label to neutral).
C18_MappingIsStatedTable ==
    (impl \in {"hf", "ai"} /\ job.pc = "done" /\ ~job.result.error
        /\ job.reply.kind \in {"nested", "flat"}) =>
        LET pairs == job.reply.pairs
        IN  \E k \in 1..Len(pairs) :
              /\ \A m \in 1..Len(pairs) : pairs[m].score <= pairs[k].score
              /\ job.result.emotion = StatedTable(toLowerCase(pairs[k].label))

\* The first balanced {...} substring of a reply whose objects are not nested:
\* from the first "{" to the first "}" after it (<<>> if there is none).
FirstObject(content) ==
    LET opening == {i \in 1..Len(content) : content[i] = "{"}
    IN  IF opening = {} THEN <<>>
        ELSE LET first   == Min(opening)
                 closing == {i \in first..Len(content) : content[i] = "}"}
             IN  IF closing = {} THEN <<>>
                 ELSE SubSeq(content, first, Min(closing))

\* C19: when a generative reply contains a JSON object surrounded by other
\* text, which may contain braces after the object, the attempt succeeds with
\* the emotion and confidence of the first balanced {...} substring.
C19_FirstObjectIsExtracted ==
    (impl \in Cascades /\ job.reply.kind = "text"
        /\ Len(FirstObject(job.reply.content)) = 3
        /\ FirstObject(job.reply.content)[2] \in Bodies) =>
        /\ job.pc = "done"
        /\ job.result.emotion = bodyEmotion(FirstObject(job.reply.content)[2])
        /\ job.result.confidence = bodyConfidence(FirstObject(job.reply.content)[2])

\* C20: the message log is append-only: every step that changes it adds exactly
\* one entry at the end and leaves every earlier entry as and where it was.
C20_LogIsAppendOnly ==
    [][ messages' # messages =>
          /\ Len(messages') = Len(messages) + 1
          /\ SubSeq(messages', 1, Len(messages)) = messages ]_vars

\* C20 witness: a log holding a login notice, session notices and a user
\* utterance, to which Logout has just added its notice.
C20_Witness ==
    /\ lastOp = "handleLogout"
    /\ Len(messages) >= 4
    /\ messages[1].content \in {"AutoLoggedIn", "LoggedIn"}
    /\ \E i \in 2..(Len(messages) - 1) : messages[i].role = "user"
    /\ Last(messages).content = "LoggedOut"

\* What a session writes into the log once it is connected.
SessionUtterance(u) ==
    \/ u.role \in {"user", "assistant"}
    \/ u.content \in {"Connected", "Disconnected", "QuotaExceeded", "ConversationEnded"}

\* C21: when startConversation starts a new session the log holds no utterance
\* of an earlier session.
C21_NewSessionClearsLog ==
    (lastOp = "startConversation" /\ status = "connecting") =>
        \A i \in 1..Len(messages) : ~SessionUtterance(messages[i])

\* C22: the classifier has been invoked once for every user utterance in the
\* log and never for an assistant or system utterance: the calls still
\* suspended plus the calls that have returned equal the user utterances.
C22_OneClassificationPerUserUtterance ==
    Len(classifying) + Len(detected) = UserCount(messages)

\* C22 witness: two user utterances, one classified and one still suspended,
\* next to assistant and system utterances.
C22_Witness ==
    /\ UserCount(messages) = 2
    /\ Len(detected) = 1
    /\ Len(classifying) = 1
    /\ \E i \in 1..Len(messages) : messages[i].role = "assistant"
    /\ \E i \in 1..Len(messages) : messages[i].role = "system"

\* C23: startConversation invoked while nobody is logged in appends one system
\* notice and changes neither status, isConnected, emotion nor the transport;
\* status becomes 'connecting' only while isLoggedIn is true; a failed
\* handleAuth leaves isLoggedIn false with authError set.
C23_LoginGatesSession ==
    [][ /\ (lastOp' = "startConversation" /\ ~isLoggedIn) =>
              /\ messages' = Append1(messages, "system", "LoginRequired")
              /\ status' = status /\ isConnected' = isConnected
              /\ emotion' = emotion
              /\ flow' = flow /\ transport' = transport
              /\ ~isLoggedIn'
        /\ (status' = "connecting" /\ status # "connecting") =>
              (isLoggedIn /\ isLoggedIn' /\ lastOp' = "startConversation")
        /\ (lastOp' \in {"handleAuth", "handleAuthResponse"} /\ messages' = messages
                /\ authAwait' <= authAwait) =>
              (~isLoggedIn' /\ authError') ]_vars

\* C23 witness: a login was refused and startConversation, invoked
\* nevertheless, only left its notice.
C23_Witness ==
    /\ lastOp = "startConversation"
    /\ ~isLoggedIn
    /\ authError
    /\ Last(messages).content = "LoginRequired"
    /\ status = "disconnected"
    /\ \A s \in Sessions : flow[s] = "idle" /\ transport[s] = "none"

\* C24: while every classification resolves before the next user utterance is
\* appended, the results are applied in the order the requests were issued:
\* the j-th result applied belongs to the j-th user utterance.
InOrder(seq) == \A j \in 1..Len(seq) : seq[j].n = j
NeverTwoInFlight ==
    /\ \A j \in 1..Len(applied) : applied[j].alone
    /\ \A j \in 1..Len(classifying) : classifying[j].alone
C24_WitnessInOrder ==
    /\ NeverTwoInFlight
    /\ Len(applied) = 2
    /\ ~isBlank(applied[1].text) /\ ~isBlank(applied[2].text)
    /\ lastOp = "classified"

\* C25: when the classification of a user utterance resolves with an emotion
\* e other than neutral, the emotion of the session becomes exactly e.
C25_NonNeutralIsAdopted ==
    [][ (Len(detected') = Len(detected) + 1
            /\ Last(detected') \notin {"neutral", ""})
          => emotion' = Last(detected') ]_vars

\* C25 witness: a classification has just resolved with 'surprised' while the
\* avatar showed something else, and the avatar shows 'surprised'.
C25_Witness ==
    /\ lastOp = "classified"
    /\ Len(detected) = 1
    /\ detected[1] = "surprised"
    /\ emotion = "surprised"

\* C26: in every reachable state the emotion of the session is one of neutral,
\* happy, sad, angry, surprised, confused, whatever the transport callbacks
\* deliver and whatever emotion a provider reply contains.
C26_EmotionInVocabulary == emotion \in Emotions

\* C27: in the fallback cascade every failed attempt (a rejected request, a
\* non-2xx response, a reply without parseable JSON) is followed by an attempt
\* with the next model name, begun when the failed one has settled, and the
\* call returns its fallback only after the last name has failed; the single
\* Hugging Face request that reports 'model is loading' has no further name
\* and returns the fallback.
FailedAttempt(reply) ==
    \/ reply.kind \in {"neterr", "http", "shape"}
    \/ reply.kind = "text" /\ jsonMatch(reply.content) = <<>>
    \/ reply.kind = "text" /\ ~parses(jsonMatch(reply.content))
C27_FailureMovesToNextModel ==
    [][ /\ (impl = "rest" /\ job.pc = "fetching" /\ job' # job
               /\ FailedAttempt(job'.reply)) =>
              IF job.attempt < Len(modelNames("rest"))
                THEN /\ job'.pc = "fetching"
                     /\ job'.attempt = job.attempt + 1
                     /\ job'.fetches = job.fetches + 1
                ELSE /\ job'.pc = "done"
                     /\ job'.fetches = Len(modelNames("rest"))
                     /\ job'.result.emotion = "neutral" /\ job'.result.error
        /\ (impl = "rest" /\ job.pc = "fetching" /\ job'.pc = "done"
               /\ job'.result.error) =>
              job.attempt = Len(modelNames("rest"))
        /\ (impl = "hf" /\ job.pc = "fetching" /\ job' # job
               /\ job'.reply.kind = "loading") =>
              /\ job'.pc = "done" /\ job'.fetches = 1
              /\ ~job'.result.thrown
              /\ job'.result.emotion = "neutral" /\ job'.result.error ]_vars

\* C27 witness: the first model's reply held no JSON and the request for the
\* second model name is under way.
C27_Witness ==
    /\ impl = "rest"
    /\ job.pc = "fetching"
    /\ job.attempt = 2 /\ job.fetches = 2
    /\ job.reply = GeminiReply("text", <<"a">>)

\* C28: when several {label, score} pairs share the maximum score, the pair
\* that comes first in the response is the one whose label is mapped.
FirstOfTop(pairs) ==
    LET top == {k \in 1..Len(pairs) :
                   \A m \in 1..Len(pairs) : pairs[m].score <= pairs[k].score}
    IN  pairs[Min(top)]
C28_FirstOfTiesIsSelected ==
    /\ (impl = "hf" /\ job.pc = "done" /\ job.reply.kind = "nested"
            /\ Len(job.reply.pairs) > 0) =>
          /\ job.result.emotion =
                emotionMapping(toLowerCase(FirstOfTop(job.reply.pairs).label))
          /\ job.result.confidence = FirstOfTop(job.reply.pairs).score
    /\ (impl = "ai" /\ job.pc = "done" /\ job.reply.kind \in {"nested", "flat"}
            /\ Len(job.reply.pairs) > 0) =>
          /\ job.result.emotion =
                emotionMap(toLowerCase(FirstOfTop(job.reply.pairs).label))
          /\ job.result.confidence = FirstOfTop(job.reply.pairs).score

\* C28 witness: disgust and fear tie at the top; disgust comes first and its
\* mapping ('angry', where fear gives 'sad') is the result.
C28_Witness ==
    /\ impl = "hf"
    /\ job.pc = "done"
    /\ job.reply = Reply("nested", <<Pair("Disgust", 50), Pair("fear", 50)>>)
    /\ job.result.emotion = "angry"
    /\ job.result.confidence = 50

\* C29: a reply in the flat shape [{label, score}, ...] and one in the nested
\* shape [[{label, score}, ...]] are both accepted and give the mapped emotion
\* of the pair with the highest score; the flat shape is not turned into the
\* neutral fallback.
C29_BothShapesAccepted ==
    (impl \in {"hf", "ai"} /\ job.pc = "done"
        /\ job.reply.kind \in {"nested", "flat"} /\ Len(job.reply.pairs) > 0) =>
        /\ ~job.result.error
        /\ job.result.confidence = FirstOfTop(job.reply.pairs).score
        /\ job.result.emotion =
              IF impl = "hf"
                THEN emotionMapping(toLowerCase(FirstOfTop(job.reply.pairs).label))
                ELSE emotionMap(toLowerCase(FirstOfTop(job.reply.pairs).label))

StartFailure ==
    \/ lastOp' \in {"micDenied", "sessionFailed"}
    \/ lastOp' = "startConversation" /\ isLoggedIn /\ ~configured
C31_StartFailureIsErrorAndSad ==
    [][ /\ StartFailure =>
              /\ status' = "error"
              /\ ~isConnected' /\ ~isSpeaking'
              /\ emotion' = "sad"
              /\ messages' = Append1(messages, "system", "StartFailed")
              /\ \A s \in Sessions :
                    flow'[s] \in {"mic", "session"} => flow'[s] = flow[s]
              /\ \A s \in Sessions :
                    transport'[s] = "starting" => transport[s] = "starting"
        /\ \A s \in Sessions :
              (flow'[s] = "mic" /\ flow[s] # "mic") =>
                  (lastOp' = "startConversation" /\ flow[s] = "idle") ]_vars

\* C31 witness: the transport start was rejected while the avatar was not sad.
C31_Witness ==
    /\ lastOp = "sessionFailed"
    /\ status = "error"
    /\ emotion = "sad"
    /\ ~isConnected /\ ~isSpeaking
    /\ Last(messages).content = "StartFailed"
    /\ \E s \in Sessions : flow[s] = "failed" /\ transport[s] = "failed"

\* C32: endConversation does not cancel a classification that is in flight;
\* when the classification resolves, in whatever state, it sets the emotion
\* (neutral shown as happy) and leaves the status alone.
C32_TeardownKeepsClassification ==
    [][ /\ lastOp' \in {"endSession", "endConversation"} =>
              classifying' = classifying
        /\ lastOp' = "classified" =>
              /\ Len(detected') = Len(detected) + 1
              /\ emotion' = IF Last(detected') = "neutral" THEN "happy"
                            ELSE Last(detected')
              /\ status' = status /\ isConnected' = isConnected ]_vars

\* C32 witness: the utterance was appended before the teardown, the teardown
\* completed (status 'disconnected', emotion 'neutral'), and the classification
\* that resolved afterwards left 'angry' on the disconnected session.
C32_Witness ==
    /\ lastOp = "classified"
    /\ status = "disconnected"
    /\ ~isConnected
    /\ conversationRef = 0
    /\ emotion = "angry"
    /\ Len(applied) = 1
    /\ \E i, j \in 1..Len(messages) :
          /\ i < j
          /\ messages[i].role = "user"
          /\ messages[j].content = "ConversationEnded"
          /\ \A k \in (j + 1)..Len(messages) : messages[k].role # "user"

\* C33: handleConfirmClear sends POST /mem0/clear only when, in the same call,
\* POST /login for the entered username and password has returned 2xx, and
\* sends nothing when the username, the password or AUTH_TOKEN is missing;
\* when a request fails clearError is set and no confirmation is appended; a
\* call that has finished leaves isClearing false.
C33_ClearOnlyAfterLogin ==
    [][ /\ (Len(requests') > Len(requests)
                /\ Last(requests').path = "/mem0/clear") =>
              /\ lastOp' = "clearLoginResponse"
              /\ clearCall.pc = "login" /\ clearCall'.pc = "clear"
              /\ Last(requests) = LoginRequest(clearCall.username, clearCall.password)
              /\ clearCall.username # "" /\ clearCall.password # ""
              /\ authToken
        /\ (lastOp' = "handleConfirmClear"
                /\ (clearUsername = "" \/ clearPassword = "" \/ ~authToken)) =>
              /\ requests' = requests
              /\ clearError' /\ ~isClearing'
              /\ clearCall'.pc = "idle"
              /\ messages' = messages
        /\ (lastOp' = "clearLoginResponse" /\ clearCall'.pc = "idle") =>
              (clearError' /\ messages' = messages /\ requests' = requests)
        /\ lastOp' = "clearResponse" =>
              \/ clearError' /\ messages' = messages
              \/ /\ ~clearError'
                 /\ messages' = Append1(messages, "system", "MemoryCleared")
                 /\ ~showClearDialog'
        /\ clearCall'.pc = "idle" => ~isClearing'
        /\ isClearing' => clearCall'.pc # "idle" ]_vars

\* C33 witness: the login for 'Bob ' succeeded, the clear request for 'bob'
\* failed; clearError is set, nothing was appended, isClearing is false.
C33_Witness ==
    /\ lastOp = "clearResponse"
    /\ clearError
    /\ ~isClearing
    /\ showClearDialog
    /\ requests = <<LoginRequest("Bob ", "pw"), ClearRequest("bob")>>
    /\ \A i \in 1..Len(messages) : messages[i].content # "MemoryCleared"

\* C34: every classify call resolves with a result once its provider requests
\* settle: the wait in the limiter ends no later than 3000 ms after the call,
\* a request is sent for each model name at most once, and the call reaches
\* its return.
C34_ClassifyTerminates ==
    /\ [](job.pc = "waiting" =>
             (job.wakeAt <= StartTime + MIN_REQUEST_INTERVAL /\ job.fetches = 0))
    /\ [](job.fetches = job.attempt
             /\ job.attempt <= IF impl \in Cascades THEN Len(modelNames(impl)) ELSE 1)
    /\ (job.pc # "idle") ~> (job.pc = "done" /\ ~job.result.thrown)

\* C34 witness: a call that waited the full 3000 ms and then failed on both
\* model names of the REST cascade has returned.
C34_Witness ==
    /\ impl = "rest"
    /\ job.pc = "done"
    /\ job.wakeAt = StartTime + MIN_REQUEST_INTERVAL
    /\ clock >= job.wakeAt
    /\ job.fetches = 2
    /\ job.result.error

\* C35: in every state reached through transport callbacks, startConversation,
\* endConversation and handleLogout, isSpeaking is true exactly when status is
\* 'speaking'.
C35_SpeakingAgreesWithStatus == isSpeaking <=> (status = "speaking")

\* C36: in every reachable state a connected session implies a logged-in
\* user, also after handleLogout is invoked while a session is connected.
C36_ConnectedImpliesLoggedIn == isConnected => isLoggedIn

\* C37: whenever no handleAuth request is in flight, the username is stored
\* under 'alfred_username' exactly when isLoggedIn is true, for every
\* interleaving of handleAuth and handleLogout, two overlapping handleAuth
\* requests included.
C37_StorageAgreesWithLogin == (authAwait = 0) => (storage <=> isLoggedIn)

\* C38: a transport callback of an earlier session that is delivered after a
\* newer session has been started (here its onDisconnect, the newer transport
\* starting or open) changes neither the status, nor the connected flag, nor
\* the emotion of the newer session.
C38_LateCallbackIsIgnored ==
    [][ \A s, t \in Sessions :
          (s < t /\ transport[t] \in {"starting", "open"}
              /\ transport[s] = "open" /\ transport'[s] = "closed")
            => (status' = status /\ isConnected' = isConnected
                    /\ emotion' = emotion) ]_vars

\* C39: when startConversation has succeeded on a connected session, the
\* connected flag that updateVolume tests is the session's current one, so
\* the monitoring loop runs while the session is connected.
C39_VolumeLoopTestsCurrentFlag ==
    [][ \A s \in Sessions :
          (flow[s] = "session" /\ flow'[s] = "done")
            => closure[s] = isConnected ]_vars
====
